---------------------------- MODULE Spec2Model ----------------------------
(***************************************************************************)
(* Metrics + ranking pipeline of the enrollment-imbalance analyser.        *)
(*                                                                         *)
(*   src/src/imbalance_metrics.py   ImbalanceMetrics  (per-row formulas)   *)
(*   src/src/ranking_engine.py      RankingEngine     (aggregate, rank)    *)
(*                                                                         *)
(* Numbers.  The age counts are non-negative integers.  Every metric the   *)
(* code computes as a Python float is a quotient of small integers, and is *)
(* kept here as an exact fraction [num, den] in lowest terms.  For the     *)
(* comparisons of aer against the decimal thresholds this is exactly what  *)
(* the floats do: c2/total is correctly rounded, so it equals the literal  *)
(* when the fraction equals the decimal and lies on the same side of it    *)
(* otherwise (the two differ by at least 1/(1000*total)).  The one place   *)
(* where double rounding decides an outcome for small integers is the      *)
(* product len(district_data) * 0.3 / * 0.7 of rank_districts; that        *)
(* product is modelled bit for bit (FloatProductFloor).                    *)
(***************************************************************************)
EXTENDS Integers, Sequences, FiniteSets, TLC

VARIABLES
    df,                 \* the input table handed to the engine (rows)
    district_rankings,  \* RankingEngine.district_rankings
    pincode_rankings,   \* RankingEngine.pincode_rankings
    rankings_cache,     \* the st.cache_data entry of calculate_rankings
    ret                 \* the last call and what it returned

vars == <<df, district_rankings, pincode_rankings, rankings_cache, ret>>

---------------------------------------------------------------------------
(* Exact fractions                                                         *)

RECURSIVE Gcd(_, _)
Gcd(a, b) == IF b = 0 THEN a ELSE Gcd(b, a % b)

Abs(x) == IF x < 0 THEN -x ELSE x

\* n/d in lowest terms with a positive denominator (d # 0)
Frac(n, d) ==
    LET g == Gcd(Abs(n), Abs(d))
        s == IF d < 0 THEN -1 ELSE 1
    IN  [num |-> s * (n \div g), den |-> s * (d \div g)]

FInt(n) == [num |-> n, den |-> 1]

FAdd(a, b) ==
    LET l == (a.den \div Gcd(a.den, b.den)) * b.den
    IN  Frac(a.num * (l \div a.den) + b.num * (l \div b.den), l)

FNeg(a) == [num |-> -a.num, den |-> a.den]

FSub(a, b) == FAdd(a, FNeg(b))

FAbs(a) == [num |-> Abs(a.num), den |-> a.den]

\* cross-reduced product, so that no intermediate exceeds the result
FMul(a, b) ==
    LET g1 == Gcd(Abs(a.num), b.den)
        g2 == Gcd(Abs(b.num), a.den)
    IN  [num |-> (a.num \div g1) * (b.num \div g2),
         den |-> (a.den \div g2) * (b.den \div g1)]

\* a / b for b > 0
FDiv(a, b) == FMul(a, [num |-> b.den, den |-> b.num])

\* a < b for fractions >= 0, by integer parts and then the reciprocals of the
\* fractional parts (no cross product, so no overflow)
RECURSIVE FLtPos(_, _)
FLtPos(a, b) ==
    LET qa == a.num \div a.den
        qb == b.num \div b.den
        ra == a.num % a.den
        rb == b.num % b.den
    IN  IF qa # qb THEN qa < qb
        ELSE IF rb = 0 THEN FALSE
        ELSE IF ra = 0 THEN TRUE
        ELSE FLtPos([num |-> b.den, den |-> rb], [num |-> a.den, den |-> ra])

FLt(a, b) ==
    IF a.num < 0 /\ b.num >= 0 THEN TRUE
    ELSE IF a.num >= 0 /\ b.num < 0 THEN FALSE
    ELSE IF a.num < 0 THEN FLtPos(FNeg(b), FNeg(a))
    ELSE FLtPos(a, b)

FLe(a, b) == ~FLt(b, a)

FMin(a, b) == IF FLt(b, a) THEN b ELSE a

FMax(a, b) == IF FLt(a, b) THEN b ELSE a

---------------------------------------------------------------------------
(* ImbalanceMetrics: the per-row formulas                                  *)

\* calculate_aer: age_18_greater / total, 0.0 when total == 0
\* (a variant that divides the wrong column: age_5_17 for age_18_greater)
calculate_aer_wrong_column(age_0_5, age_5_17, age_18_greater) ==
    LET total == age_0_5 + age_5_17 + age_18_greater
    IN  IF total = 0 THEN FInt(0) ELSE Frac(age_5_17, total)

calculate_aer(age_0_5, age_5_17, age_18_greater) ==
    LET total == age_0_5 + age_5_17 + age_18_greater
    IN  IF total = 0 THEN FInt(0) ELSE Frac(age_18_greater, total)

\* calculate_caes: age_0_5 / (age_18_greater + 1)
calculate_caes(age_0_5, age_18_greater) == Frac(age_0_5, age_18_greater + 1)

\* calculate_aebi: (aer * 100) + (1 - abs(ratio_5_17 - 0.05) / 0.1),
\* then max(0, min(100, aebi)); 0.0 when total == 0
\* (a variant without the clamp of line 93)
calculate_aebi_unclamped(age_0_5, age_5_17, age_18_greater) ==
    LET total == age_0_5 + age_5_17 + age_18_greater
        aer == calculate_aer(age_0_5, age_5_17, age_18_greater)
    IN  IF total = 0 THEN FInt(0)
        ELSE FAdd(FMul(aer, FInt(100)),
                  FSub(FInt(1),
                       FDiv(FAbs(FSub(Frac(age_5_17, total), Frac(5, 100))),
                            Frac(1, 10))))

calculate_aebi(age_0_5, age_5_17, age_18_greater) ==
    LET total == age_0_5 + age_5_17 + age_18_greater
        aer == calculate_aer(age_0_5, age_5_17, age_18_greater)
        ratio_5_17 == Frac(age_5_17, total)
        aebi == FAdd(FMul(aer, FInt(100)),
                     FSub(FInt(1),
                          FDiv(FAbs(FSub(ratio_5_17, Frac(5, 100))),
                               Frac(1, 10))))
    IN  IF total = 0 THEN FInt(0)
        ELSE FMax(FInt(0), FMin(FInt(100), aebi))

\* (a variant with > for >=)
classify_aer_grade_strict(aer) ==
    IF FLt(Frac(5, 100), aer) THEN "GREEN"
    ELSE IF FLt(Frac(1, 100), aer) THEN "YELLOW"
    ELSE "RED"

classify_aer_grade(aer) ==
    IF FLe(Frac(5, 100), aer) THEN "GREEN"
    ELSE IF FLe(Frac(1, 100), aer) THEN "YELLOW"
    ELSE "RED"

\* (a variant that tests the lower threshold first)
classify_aebi_grade_low_first(aebi) ==
    IF FLe(FInt(3), aebi) THEN "GREEN"
    ELSE IF FLe(FInt(7), aebi) THEN "YELLOW"
    ELSE "RED"

classify_aebi_grade(aebi) ==
    IF FLe(FInt(7), aebi) THEN "GREEN"
    ELSE IF FLe(FInt(3), aebi) THEN "YELLOW"
    ELSE "RED"

---------------------------------------------------------------------------
(* IEEE-754 double product of an integer and a double constant              *)
(*                                                                         *)
(* rank_districts compares the integer rank x with len(district_data)*0.3  *)
(* and *0.7.  The doubles are 0.3 = 0x13333333333333 * 2^-54 and           *)
(* 0.7 = 0x16666666666666 * 2^-53; the product is the exact product        *)
(* rounded to 53 significant bits, ties to even.  Bit sequences are least  *)
(* significant bit first.                                                  *)

RECURSIVE Pow2(_)
Pow2(k) == IF k = 0 THEN 1 ELSE 2 * Pow2(k - 1)

\* the 53-bit significand 0x1hhhhhhhhhhhhh (13 times the hex digit h)
Significand(h) ==
    [i \in 1..53 |-> IF i = 53 THEN 1 ELSE (h \div Pow2((i - 1) % 4)) % 2]

Double03 == [mant |-> Significand(3), scale |-> 54]

Double07 == [mant |-> Significand(6), scale |-> 53]

RECURSIVE MulBits(_, _, _)
MulBits(bits, n, carry) ==
    IF bits = <<>>
    THEN IF carry = 0 THEN <<>>
         ELSE <<carry % 2>> \o MulBits(<<>>, n, carry \div 2)
    ELSE LET t == n * Head(bits) + carry
         IN  <<t % 2>> \o MulBits(Tail(bits), n, t \div 2)

RECURSIVE IncBits(_)
IncBits(bits) ==
    IF bits = <<>> THEN <<1>>
    ELSE IF Head(bits) = 0 THEN <<1>> \o Tail(bits)
    ELSE <<0>> \o IncBits(Tail(bits))

RECURSIVE BitsVal(_)
BitsVal(bits) == IF bits = <<>> THEN 0 ELSE Head(bits) + 2 * BitsVal(Tail(bits))

\* floor(fl(n * c)) for an integer n >= 1 and a double c in (0, 1)
FloatProductFloor(n, c) ==
    LET p == MulBits(c.mant, n, 0)
        k == Len(p) - 53
        kept == SubSeq(p, k + 1, Len(p))
        roundUp == /\ k > 0
                   /\ p[k] = 1
                   /\ \/ \E i \in 1..(k - 1) : p[i] = 1
                      \/ kept[1] = 1
        r == IF roundUp THEN IncBits(kept) ELSE kept
        drop == c.scale - k
    IN  BitsVal(SubSeq(r, drop + 1, Len(r)))

---------------------------------------------------------------------------
(* Tables.  A table is a sequence of rows (records); a groupby(...).agg    *)
(* returns one row per key, in ascending key order (pandas sort=True).     *)

Range(f) == {f[i] : i \in DOMAIN f}

\* the table with every row computed (a sequence, not a rule to compute one)
Table(f) == f \o <<>>

\* keys are <<district>> or <<district, pincode>>; lexicographic order
KeyLess(a, b) ==
    \/ a[1] < b[1]
    \/ /\ a[1] = b[1]
       /\ Len(a) = 2
       /\ a[2] < b[2]

RECURSIVE SortedKeys(_)
SortedKeys(S) ==
    IF S = {} THEN <<>>
    ELSE LET m == CHOOSE k \in S : \A o \in S : o = k \/ KeyLess(k, o)
         IN  <<m>> \o SortedKeys(S \ {m})

RECURSIVE SumOver(_, _, _)
SumOver(t, idx, col) ==
    IF idx = {} THEN 0
    ELSE LET i == CHOOSE j \in idx : TRUE
         IN  t[i][col] + SumOver(t, idx \ {i}, col)

\* agg_dict: the three age counts and total_enrollments, each 'sum'
\* (a variant that aggregates with 'first')
AggFirst(t, idx) ==
    LET i == CHOOSE j \in idx : \A o \in idx : j <= o
    IN  [age_0_5           |-> t[i].age_0_5,
         age_5_17          |-> t[i].age_5_17,
         age_18_greater    |-> t[i].age_18_greater,
         total_enrollments |-> t[i].total_enrollments]

AggSum(t, idx) ==
    [age_0_5           |-> SumOver(t, idx, "age_0_5"),
     age_5_17          |-> SumOver(t, idx, "age_5_17"),
     age_18_greater    |-> SumOver(t, idx, "age_18_greater"),
     total_enrollments |-> SumOver(t, idx, "total_enrollments")]

\* df.groupby('district').agg(agg_dict).reset_index()
GroupByDistrict(t) ==
    LET keys == SortedKeys({<<r.district>> : r \in Range(t)})
    IN  Table([g \in 1..Len(keys) |->
            [district |-> keys[g][1]]
            @@ AggSum(t, {i \in DOMAIN t : t[i].district = keys[g][1]})])

\* df.groupby(['district', 'pincode']).agg(agg_dict).reset_index()
GroupByDistrictPincode(t) ==
    LET keys == SortedKeys({<<r.district, r.pincode>> : r \in Range(t)})
    IN  Table([g \in 1..Len(keys) |->
            [district |-> keys[g][1], pincode |-> keys[g][2]]
            @@ AggSum(t, {i \in DOMAIN t : /\ t[i].district = keys[g][1]
                                          /\ t[i].pincode = keys[g][2]})])

\* (c / total_enrollments * 100).fillna(0)
PctOfTotal(c, total_enrollments) ==
    IF total_enrollments = 0 THEN FInt(0) ELSE Frac(100 * c, total_enrollments)

\* Series.rank(ascending=True): the average of the positions of equal values
AverageRank(t, i) ==
    LET less == Cardinality({j \in DOMAIN t : FLt(t[j].aer, t[i].aer)})
        same == Cardinality({j \in DOMAIN t : t[j].aer = t[i].aer})
    IN  Frac(2 * less + same + 1, 2)

\* add_metrics_to_dataframe, on a table that has the three count columns and
\* total_enrollments.  Each df[col] = ... sets the column, whether the table
\* already has it or not; every other column is left as it is.
\* (a variant that adds the counts onto the total_enrollments already there)
add_metrics_to_dataframe_accumulating(t) ==
    LET m1 == Table([i \in DOMAIN t |->
                 LET r == t[i]
                     total == r.total_enrollments
                                + r.age_0_5 + r.age_5_17 + r.age_18_greater
                     aer == calculate_aer(r.age_0_5, r.age_5_17, r.age_18_greater)
                     aebi == calculate_aebi(r.age_0_5, r.age_5_17, r.age_18_greater)
                 IN  [total_enrollments |-> total,
                      aer        |-> aer,
                      caes       |-> calculate_caes(r.age_0_5, r.age_18_greater),
                      aebi       |-> aebi,
                      aer_pct    |-> FMul(aer, FInt(100)),
                      child_pct  |-> PctOfTotal(r.age_0_5, total),
                      youth_pct  |-> PctOfTotal(r.age_5_17, total),
                      adult_pct  |-> PctOfTotal(r.age_18_greater, total),
                      aer_grade  |-> classify_aer_grade(aer),
                      aebi_grade |-> classify_aebi_grade(aebi)] @@ r])
    IN  Table([i \in DOMAIN t |->
                 [priority_score |-> AverageRank(m1, i)] @@ m1[i]])

add_metrics_to_dataframe(t) ==
    LET m1 == Table([i \in DOMAIN t |->
                 LET r == t[i]
                     aer == calculate_aer(r.age_0_5, r.age_5_17, r.age_18_greater)
                     aebi == calculate_aebi(r.age_0_5, r.age_5_17, r.age_18_greater)
                 IN  [aer        |-> aer,
                      caes       |-> calculate_caes(r.age_0_5, r.age_18_greater),
                      aebi       |-> aebi,
                      aer_pct    |-> FMul(aer, FInt(100)),
                      child_pct  |-> PctOfTotal(r.age_0_5, r.total_enrollments),
                      youth_pct  |-> PctOfTotal(r.age_5_17, r.total_enrollments),
                      adult_pct  |-> PctOfTotal(r.age_18_greater, r.total_enrollments),
                      aer_grade  |-> classify_aer_grade(aer),
                      aebi_grade |-> classify_aebi_grade(aebi)] @@ r])
    IN  Table([i \in DOMAIN t |->
                 [priority_score |-> AverageRank(m1, i)] @@ m1[i]])

\* the metric columns a ranking may be asked to sort by
Metrics == {"aer", "aebi", "caes"}

\* df.sort_values(metric, ascending=True).  The default kind is 'quicksort',
\* which does not promise the order of equal values: every ascending order
\* of the rows is a possible result.
RECURSIVE AscendingOrders(_, _, _)
AscendingOrders(t, metric, idx) ==
    IF idx = {} THEN {<<>>}
    ELSE LET least == {i \in idx :
                         \A j \in idx : ~FLt(t[j][metric], t[i][metric])}
         IN  UNION {{<<t[i]>> \o rest
                     : rest \in AscendingOrders(t, metric, idx \ {i})}
                    : i \in least}

\* (a variant that leaves the rows in their grouping order)
sort_values_skipped(t, metric) == {t}

sort_values(t, metric) == AscendingOrders(t, metric, DOMAIN t)

---------------------------------------------------------------------------
(* RankingEngine                                                           *)

\* lambda x: 'HIGH' if x <= len(district_data) * 0.3
\*           else 'MEDIUM' if x <= len(district_data) * 0.7 else 'LOW'
priority(x, n) ==
    IF x <= FloatProductFloor(n, Double03) THEN "HIGH"
    ELSE IF x <= FloatProductFloor(n, Double07) THEN "MEDIUM"
    ELSE "LOW"

\* rank_districts(df, metric): the tables it may return
rank_districts(t, metric) ==
    LET district_data == add_metrics_to_dataframe(GroupByDistrict(t))
    IN  {Table([i \in DOMAIN s |->
                  s[i] @@ [rank |-> i, priority |-> priority(i, Len(s))]])
         : s \in sort_values(district_data, metric)}

\* lambda row: 'HIGH' if row['aer'] < 0.005 else 'MEDIUM' if row['aer'] < 0.02
\*             else 'LOW'
\* (a variant with <= for <)
risk_level_inclusive(row) ==
    IF FLe(row.aer, Frac(5, 1000)) THEN "HIGH"
    ELSE IF FLe(row.aer, Frac(2, 100)) THEN "MEDIUM"
    ELSE "LOW"

risk_level(row) ==
    IF FLt(row.aer, Frac(5, 1000)) THEN "HIGH"
    ELSE IF FLt(row.aer, Frac(2, 100)) THEN "MEDIUM"
    ELSE "LOW"

\* (a variant that tests the AER bands before the zero-adult rule)
generate_recommendation_bands_first(row) ==
    IF FLt(row.aer, Frac(1, 100)) THEN "Adult outreach required"
    ELSE IF FLt(row.aer, Frac(3, 100)) THEN "Moderate improvement needed"
    ELSE IF FLt(row.aer, Frac(5, 100)) THEN "Slight optimization possible"
    ELSE IF row.age_18_greater = 0 THEN "Targeted adult drive needed"
    ELSE "Best-practice center"

generate_recommendation(row) ==
    IF row.age_18_greater = 0 THEN "Targeted adult drive needed"
    ELSE IF FLt(row.aer, Frac(1, 100)) THEN "Adult outreach required"
    ELSE IF FLt(row.aer, Frac(3, 100)) THEN "Moderate improvement needed"
    ELSE IF FLt(row.aer, Frac(5, 100)) THEN "Slight optimization possible"
    ELSE "Best-practice center"

\* pincode_data[pincode_data['total_enrollments'] >= min_enrollments]
\* (a variant with > for >=)
FilterMinEnrollmentsStrict(t, min_enrollments) ==
    LET Keep(r) == r.total_enrollments > min_enrollments
    IN  SelectSeq(t, Keep)

FilterMinEnrollments(t, min_enrollments) ==
    LET Keep(r) == r.total_enrollments >= min_enrollments
    IN  SelectSeq(t, Keep)

\* rank_pincodes(df, metric, min_enrollments): the full rankings it may build
\* (self.pincode_rankings), before head(top_n)
rank_pincodes(t, metric, min_enrollments) ==
    LET pincode_data == add_metrics_to_dataframe(
                            FilterMinEnrollments(GroupByDistrictPincode(t),
                                                 min_enrollments))
    IN  {Table([i \in DOMAIN s |->
                  s[i] @@ [rank           |-> i,
                           risk_level     |-> risk_level(s[i]),
                           recommendation |-> generate_recommendation(s[i])]])
         : s \in sort_values(pincode_data, metric)}

\* top_n = None is NoTopN; `if top_n:` is also false for top_n = 0
NoTopN == -1

head(t, top_n) ==
    IF top_n = NoTopN \/ top_n = 0 THEN t
    ELSE SubSeq(t, 1, IF top_n < Len(t) THEN top_n ELSE Len(t))

\* lambda row: 'TIER 1 - URGENT' if row['aer'] < 0.001
\*             else 'TIER 2 - MODERATE' if row['aer'] < 0.005
\*             else 'TIER 3 - LOW PRIORITY'
\* (a variant with <= for <)
tier_inclusive(row) ==
    IF FLe(row.aer, Frac(1, 1000)) THEN "TIER 1 - URGENT"
    ELSE IF FLe(row.aer, Frac(5, 1000)) THEN "TIER 2 - MODERATE"
    ELSE "TIER 3 - LOW PRIORITY"

tier(row) ==
    IF FLt(row.aer, Frac(1, 1000)) THEN "TIER 1 - URGENT"
    ELSE IF FLt(row.aer, Frac(5, 1000)) THEN "TIER 2 - MODERATE"
    ELSE "TIER 3 - LOW PRIORITY"

\* pincode_data[pincode_data['aer'] < aer_threshold]
\* (a variant with <= for <)
FilterAerAtMost(t, aer_threshold) ==
    LET Keep(r) == FLe(r.aer, aer_threshold)
    IN  SelectSeq(t, Keep)

FilterAerBelow(t, aer_threshold) ==
    LET Keep(r) == FLt(r.aer, aer_threshold)
    IN  SelectSeq(t, Keep)

\* identify_priority_zones(df, aer_threshold, min_enrollments): the tables it
\* may return
\* (a variant without the filter on total_enrollments)
identify_priority_zones_unfiltered(t, aer_threshold, min_enrollments) ==
    LET pincode_data == add_metrics_to_dataframe(GroupByDistrictPincode(t))
        priority_zones == FilterAerBelow(pincode_data, aer_threshold)
    IN  {Table([i \in DOMAIN s |-> s[i] @@ [tier |-> tier(s[i])]])
         : s \in sort_values(priority_zones, "aer")}

identify_priority_zones(t, aer_threshold, min_enrollments) ==
    LET pincode_data == add_metrics_to_dataframe(
                            FilterMinEnrollments(GroupByDistrictPincode(t),
                                                 min_enrollments))
        priority_zones == FilterAerBelow(pincode_data, aer_threshold)
    IN  {Table([i \in DOMAIN s |-> s[i] @@ [tier |-> tier(s[i])]])
         : s \in sort_values(priority_zones, "aer")}

---------------------------------------------------------------------------
(* Inputs.  The table handed to the engine is the output of the cleaning   *)
(* stage: one row per record with district, pincode, the three counts and  *)
(* total_enrollments, which _add_derived_columns sets to their sum.  The   *)
(* engine only sums rows per key, so inputs are enumerated up to the order *)
(* of their rows.                                                          *)

\* (district, pincode): district 1 has two PIN codes, and pincode 1 occurs
\* in two districts
Keys == << <<1, 1>>, <<1, 2>>, <<2, 1>> >>

\* (age_0_5, age_5_17, age_18_greater): totals on both sides of the floors
\* 10 and 50, aer on and between the thresholds 0.001 .. 0.05
CountPool ==
    << <<50, 10, 0>>,      \* aer 0, total 60 (twice: 100, 20, 0)
       <<4, 1, 0>>,        \* aer 0, total 5: below the floors 10 and 50
       <<999, 0, 1>>,      \* aer 0.001
       <<199, 0, 1>>,      \* aer 0.005
       <<49, 0, 1>>,       \* aer 0.02, total 50
       <<92, 0, 8>> >>     \* aer 0.08

MaxRows == 3

NumOptions == Len(Keys) * Len(CountPool)

RowOption(o) ==
    LET k == Keys[((o - 1) \div Len(CountPool)) + 1]
        c == CountPool[((o - 1) % Len(CountPool)) + 1]
    IN  [district          |-> k[1],
         pincode           |-> k[2],
         age_0_5           |-> c[1],
         age_5_17          |-> c[2],
         age_18_greater    |-> c[3],
         total_enrollments |-> c[1] + c[2] + c[3]]

RECURSIVE NonDecreasing(_, _)
NonDecreasing(n, lo) ==
    IF n = 0 THEN {<<>>}
    ELSE UNION {{<<o>> \o s : s \in NonDecreasing(n - 1, o)} : o \in lo..NumOptions}

Inputs ==
    UNION {{Table([i \in 1..n |-> RowOption(f[i])]) : f \in NonDecreasing(n, 1)}
           : n \in 0..MaxRows}

\* the configuration surface
MinEnrollments == {10, 50}

AerThresholds == {Frac(1, 100), Frac(2, 100)}

TopNs == {NoTopN, 1}

---------------------------------------------------------------------------
(* The engine as a state machine                                           *)

None == [isNone |-> TRUE, rows |-> <<>>]

Some(t) == [isNone |-> FALSE, rows |-> t]

NoCall == [op |-> "none"]

\* RankingEngine() on a cleaned table
Init ==
    /\ df \in Inputs
    /\ district_rankings = None
    /\ pincode_rankings = None
    /\ rankings_cache = None
    /\ ret = NoCall

RankDistricts ==
    \E metric \in Metrics :
      \E district_data \in rank_districts(df, metric) :
        /\ district_rankings' = Some(district_data)
        /\ ret' = [op |-> "rank_districts", metric |-> metric,
                   rows |-> district_data]
        /\ UNCHANGED <<rankings_cache, df, pincode_rankings>>

\* (a variant that keeps the table cut to top_n in self.pincode_rankings)
RankPincodesKeepsHead ==
    \E metric \in Metrics, min_enrollments \in MinEnrollments :
      \E pincode_data \in rank_pincodes(df, metric, min_enrollments) :
       \E top_n \in TopNs :
        /\ pincode_rankings' = Some(head(pincode_data, top_n))
        /\ ret' = [op |-> "rank_pincodes", metric |-> metric,
                   min_enrollments |-> min_enrollments, top_n |-> top_n,
                   rows |-> head(pincode_data, top_n)]
        /\ UNCHANGED <<rankings_cache, df, district_rankings>>

RankPincodes ==
    \E metric \in Metrics, min_enrollments \in MinEnrollments :
      \E pincode_data \in rank_pincodes(df, metric, min_enrollments) :
       \E top_n \in TopNs :
        /\ pincode_rankings' = Some(pincode_data)
        /\ ret' = [op |-> "rank_pincodes", metric |-> metric,
                   min_enrollments |-> min_enrollments, top_n |-> top_n,
                   rows |-> head(pincode_data, top_n)]
        /\ UNCHANGED <<rankings_cache, df, district_rankings>>

IdentifyPriorityZones ==
    \E aer_threshold \in AerThresholds, min_enrollments \in MinEnrollments :
      \E priority_zones \in identify_priority_zones(df, aer_threshold,
                                                    min_enrollments) :
        /\ ret' = [op |-> "identify_priority_zones",
                   aer_threshold |-> aer_threshold,
                   min_enrollments |-> min_enrollments,
                   rows |-> priority_zones]
        /\ UNCHANGED <<rankings_cache, df, district_rankings, pincode_rankings>>

Next == RankDistricts \/ RankPincodes \/ IdentifyPriorityZones

\* no call has been made on the engine yet
FirstCall == ret = NoCall

\* a fresh engine and one call on it, of any operation with any arguments:
\* no operation reads the engine's state, so this is every result there is
FreshRankDistricts == FirstCall /\ RankDistricts

FreshRankPincodes == FirstCall /\ RankPincodes

FreshIdentifyPriorityZones == FirstCall /\ IdentifyPriorityZones

Spec ==
    Init /\ [][FreshRankDistricts \/ FreshRankPincodes
                   \/ FreshIdentifyPriorityZones]_vars

\* rank_regions(df, min_enrollments): a fresh engine, rank_districts(df), then
\* rank_pincodes(df, min_enrollments=min_enrollments), both by the default
\* metric and without top_n
RegionsRankDistricts ==
    /\ ret = NoCall
    /\ RankDistricts
    /\ ret'.metric = "aer"

RegionsRankPincodes ==
    /\ ret.op = "rank_districts"
    /\ RankPincodes
    /\ ret'.metric = "aer"
    /\ ret'.top_n = NoTopN

SpecRegions == Init /\ [][RegionsRankDistricts \/ RegionsRankPincodes]_vars

---------------------------------------------------------------------------
(* The per-row formulas as functions of three counts                       *)

MaxCount == 12

InitMetrics ==
    /\ df = <<>>
    /\ district_rankings = None
    /\ pincode_rankings = None
    /\ rankings_cache = None
    /\ ret = NoCall

CalculateAer ==
    \E c0, c1, c2 \in 0..MaxCount :
        /\ FirstCall
        /\ ret' = [op |-> "calculate_aer",
                   age_0_5 |-> c0, age_5_17 |-> c1, age_18_greater |-> c2,
                   value |-> calculate_aer(c0, c1, c2)]
        /\ UNCHANGED <<rankings_cache, df, district_rankings, pincode_rankings>>

CalculateAebi ==
    \E c0, c1, c2 \in 0..MaxCount :
        /\ FirstCall
        /\ ret' = [op |-> "calculate_aebi",
                   age_0_5 |-> c0, age_5_17 |-> c1, age_18_greater |-> c2,
                   value |-> calculate_aebi(c0, c1, c2)]
        /\ UNCHANGED <<rankings_cache, df, district_rankings, pincode_rankings>>

SpecMetrics == InitMetrics /\ [][CalculateAer \/ CalculateAebi]_vars

---------------------------------------------------------------------------
(* The priority label as a function of the rank and the number of ranked   *)
(* districts                                                               *)

MaxDistricts == 100

ApplyPriority ==
    \E n \in 1..MaxDistricts :
      \E x \in 1..n :
        /\ FirstCall
        /\ ret' = [op |-> "priority", rank |-> x, n |-> n,
                   value |-> priority(x, n)]
        /\ UNCHANGED <<rankings_cache, df, district_rankings, pincode_rankings>>

SpecPriority == InitMetrics /\ [][ApplyPriority]_vars

---------------------------------------------------------------------------
(* Claims                                                                  *)

\* What the claims say, stated on the input table and in integer arithmetic
RECURSIVE ColumnSum(_, _)
ColumnSum(t, col) ==
    IF t = <<>> THEN 0 ELSE Head(t)[col] + ColumnSum(Tail(t), col)

DfDistricts == {df[i].district : i \in DOMAIN df}

DfKeys == {<<df[i].district, df[i].pincode>> : i \in DOMAIN df}

DistrictRows(d) ==
    LET In(r) == r.district = d
    IN  SelectSeq(df, In)

KeyRows(key) ==
    LET In(r) == r.district = key[1] /\ r.pincode = key[2]
    IN  SelectSeq(df, In)

CountsTotal(r) == r.age_0_5 + r.age_5_17 + r.age_18_greater

\* the four summed columns of row r are the column sums of the rows part
IsSumOf(r, part) ==
    /\ r.age_0_5 = ColumnSum(part, "age_0_5")
    /\ r.age_5_17 = ColumnSum(part, "age_5_17")
    /\ r.age_18_greater = ColumnSum(part, "age_18_greater")
    /\ r.total_enrollments = ColumnSum(part, "total_enrollments")

\* adults / total < num / den, where the ratio is 0 for total = 0
AerBelow(adults, total, num, den) ==
    IF total = 0 THEN 0 < num ELSE adults * den < num * total

\* v is adults / total (0 for total = 0)
IsAer(v, adults, total) ==
    /\ v.den > 0
    /\ total = 0 => v = FInt(0)
    /\ total > 0 => v.num * total = adults * v.den

\* v is 100*c2/total + 1 - |c1/total - 0.05| / 0.1 clamped to [0, 100]
\* (0 for total = 0); over the denominator 2*total the unclamped value is
\* 200*c2 + 2*total - |20*c1 - total|
IsAebi(v, c0, c1, c2) ==
    LET total == c0 + c1 + c2
        twice == 200 * c2 + 2 * total - Abs(20 * c1 - total)
    IN  /\ v.den > 0
        /\ total = 0 => v = FInt(0)
        /\ (total > 0 /\ twice <= 0) => v = FInt(0)
        /\ (total > 0 /\ twice >= 200 * total) => v = FInt(100)
        /\ (total > 0 /\ twice > 0 /\ twice < 200 * total)
               => v.num * 2 * total = twice * v.den

AerGradeOf(adults, total) ==
    IF ~AerBelow(adults, total, 5, 100) THEN "GREEN"
    ELSE IF ~AerBelow(adults, total, 1, 100) THEN "YELLOW"
    ELSE "RED"

AebiGradeOf(v) ==
    IF v.num >= 7 * v.den THEN "GREEN"
    ELSE IF v.num >= 3 * v.den THEN "YELLOW"
    ELSE "RED"

RowsWithKey(t, key) ==
    {k \in DOMAIN t : t[k].district = key[1] /\ t[k].pincode = key[2]}

\* C1: the N rows returned by rank_districts and rank_pincodes carry the ranks
\* 1..N, each once, and a row of smaller rank never has a larger value of the
\* chosen metric.
C1_RanksAscendByMetric ==
    ret.op \in {"rank_districts", "rank_pincodes"} =>
        LET rows == ret.rows
            n == Len(rows)
        IN  /\ {rows[i].rank : i \in 1..n} = 1..n
            /\ \A i, j \in 1..n :
                   rows[i].rank < rows[j].rank
                       => ~FLt(rows[j][ret.metric], rows[i][ret.metric])

\* the aggregates (1,1), (1,2), (2,1) have AER 0.02, 0.005, 0.08 and get the
\* ranks 2, 1, 3
C1_ThreeAerValues ==
    /\ ret.op = "rank_pincodes"
    /\ ret.metric = "aer"
    /\ Len(ret.rows) = 3
    /\ \A i \in 1..3 : ret.rows[i].rank = i
    /\ ret.rows[1].aer = Frac(5, 1000) /\ ret.rows[1].pincode = 2
    /\ ret.rows[2].aer = Frac(2, 100) /\ ret.rows[2].pincode = 1
       /\ ret.rows[2].district = 1
    /\ ret.rows[3].aer = Frac(8, 100) /\ ret.rows[3].district = 2

\* C2: rank_districts returns one row per district of the input, whose counts
\* are the sums over that district's rows and whose aer, aebi and grades are
\* the formulas applied to those sums (ratio of sums).
C2_DistrictMetricsFromSums ==
    ret.op = "rank_districts" =>
        /\ \A d \in DfDistricts :
               Cardinality({k \in DOMAIN ret.rows : ret.rows[k].district = d}) = 1
        /\ \A k \in DOMAIN ret.rows :
               LET r == ret.rows[k]
                   part == DistrictRows(r.district)
               IN  /\ part # <<>>
                   /\ IsSumOf(r, part)
                   /\ IsAer(r.aer, r.age_18_greater, CountsTotal(r))
                   /\ IsAebi(r.aebi, r.age_0_5, r.age_5_17, r.age_18_greater)
                   /\ r.aer_grade = AerGradeOf(r.age_18_greater, CountsTotal(r))
                   /\ r.aebi_grade = AebiGradeOf(r.aebi)

\* a district of two rows whose aer is not the mean of the two rows' aer
C2_RatioOfSumsNotMean ==
    /\ ret.op = "rank_districts"
    /\ \E k \in DOMAIN ret.rows :
           LET part == DistrictRows(ret.rows[k].district)
               RowAer(r) == calculate_aer(r.age_0_5, r.age_5_17, r.age_18_greater)
           IN  /\ Len(part) = 2
               /\ ret.rows[k].aer
                      # FDiv(FAdd(RowAer(part[1]), RowAer(part[2])), FInt(2))

\* C3: with N ranked districts, the district of rank x is HIGH iff
\* x <= 0.3*N, MEDIUM iff 0.3*N < x <= 0.7*N and LOW otherwise (so there are
\* floor(0.3*N) HIGH districts and the tiers partition the ranks in order).
C3_PriorityByRankPercentile ==
    ret.op = "priority" =>
        /\ (ret.value = "HIGH") <=> (10 * ret.rank <= 3 * ret.n)
        /\ (ret.value = "MEDIUM") <=> /\ 3 * ret.n < 10 * ret.rank
                                      /\ 10 * ret.rank <= 7 * ret.n
        /\ (ret.value = "LOW") <=> (7 * ret.n < 10 * ret.rank)

\* C4: after rank_districts and rank_pincodes on the same input, every
\* (district, pincode) aggregate is in the PIN ranking exactly once when its
\* summed total_enrollments reaches the floor and not at all when it is
\* below, and the district row of an excluded PIN still sums all the rows of
\* the district.
C4_PinFloorPerStage ==
    ret.op = "rank_pincodes" =>
        \A key \in DfKeys :
            LET total == ColumnSum(KeyRows(key), "total_enrollments")
                dr == district_rankings.rows
            IN  /\ Cardinality(RowsWithKey(ret.rows, key))
                       = IF total >= ret.min_enrollments THEN 1 ELSE 0
                /\ total < ret.min_enrollments =>
                       /\ ~district_rankings.isNone
                       /\ Cardinality({k \in DOMAIN dr : dr[k].district = key[1]}) = 1
                       /\ \A k \in DOMAIN dr :
                              dr[k].district = key[1]
                                  => IsSumOf(dr[k], DistrictRows(key[1]))

\* a PIN of total 5 is left out under the floor 10, and its district's total
\* is more than the totals of the ranked PINs of that district
C4_ExcludedPinCounted ==
    /\ ret.op = "rank_pincodes"
    /\ ret.min_enrollments = 10
    /\ \E key \in DfKeys :
           /\ ColumnSum(KeyRows(key), "total_enrollments") = 5
           /\ RowsWithKey(ret.rows, key) = {}
           /\ \E k \in DOMAIN district_rankings.rows :
                  /\ district_rankings.rows[k].district = key[1]
                  /\ district_rankings.rows[k].total_enrollments > 5
                  /\ \E j \in DOMAIN ret.rows :
                         /\ ret.rows[j].district = key[1]
                         /\ district_rankings.rows[k].total_enrollments
                                = ret.rows[j].total_enrollments + 5

\* C5: identify_priority_zones returns exactly the (district, pincode)
\* aggregates whose summed total_enrollments reaches min_enrollments and whose
\* recomputed aer is strictly below aer_threshold, in ascending order of aer.
C5_ZonesExactlyQualifying ==
    ret.op = "identify_priority_zones" =>
        /\ \A k \in DOMAIN ret.rows :
               /\ <<ret.rows[k].district, ret.rows[k].pincode>> \in DfKeys
               /\ IsAer(ret.rows[k].aer, ret.rows[k].age_18_greater,
                        CountsTotal(ret.rows[k]))
        /\ \A key \in DfKeys :
               LET part == KeyRows(key)
                   adults == ColumnSum(part, "age_18_greater")
                   counts == ColumnSum(part, "age_0_5")
                             + ColumnSum(part, "age_5_17") + adults
                   qualifies ==
                       /\ ColumnSum(part, "total_enrollments") >= ret.min_enrollments
                       /\ AerBelow(adults, counts, ret.aer_threshold.num,
                                   ret.aer_threshold.den)
               IN  /\ Cardinality(RowsWithKey(ret.rows, key))
                          = IF qualifies THEN 1 ELSE 0
                   /\ \A k \in RowsWithKey(ret.rows, key) :
                          IsSumOf(ret.rows[k], part)
        /\ \A i, j \in DOMAIN ret.rows :
               i < j => ~FLt(ret.rows[j].aer, ret.rows[i].aer)

\* with the defaults, one aggregate is a zone, one is left out by the ceiling
\* alone and one by the floor alone
C5_EachFilterDecides ==
    /\ ret.op = "identify_priority_zones"
    /\ ret.aer_threshold = Frac(1, 100)
    /\ ret.min_enrollments = 50
    /\ Len(ret.rows) = 1
    /\ \E key \in DfKeys :
           LET part == KeyRows(key)
           IN  /\ ColumnSum(part, "total_enrollments") >= 50
               /\ ~AerBelow(ColumnSum(part, "age_18_greater"),
                            ColumnSum(part, "total_enrollments"), 1, 100)
    /\ \E key \in DfKeys :
           LET part == KeyRows(key)
           IN  /\ ColumnSum(part, "total_enrollments") < 50
               /\ AerBelow(ColumnSum(part, "age_18_greater"),
                           ColumnSum(part, "total_enrollments"), 1, 100)

\* C6: every row of identify_priority_zones has tier 1 iff aer < 0.001,
\* tier 2 iff 0.001 <= aer < 0.005 and tier 3 otherwise, for any ceiling.
C6_TierByAer ==
    ret.op = "identify_priority_zones" =>
        \A k \in DOMAIN ret.rows :
            LET r == ret.rows[k]
                below1 == AerBelow(r.age_18_greater, CountsTotal(r), 1, 1000)
                below5 == AerBelow(r.age_18_greater, CountsTotal(r), 5, 1000)
            IN  /\ (r.tier = "TIER 1 - URGENT") <=> below1
                /\ (r.tier = "TIER 2 - MODERATE") <=> (~below1 /\ below5)
                /\ (r.tier = "TIER 3 - LOW PRIORITY") <=> ~below5

\* the PIN with counts (100, 20, 0) is a zone of tier 1 under the floor 50
C6_UrgentExample ==
    /\ ret.op = "identify_priority_zones"
    /\ ret.min_enrollments = 50
    /\ \E k \in DOMAIN ret.rows :
           /\ ret.rows[k].age_0_5 = 100
           /\ ret.rows[k].age_5_17 = 20
           /\ ret.rows[k].age_18_greater = 0
           /\ ret.rows[k].total_enrollments = 120
           /\ ret.rows[k].aer = FInt(0)
           /\ ret.rows[k].tier = "TIER 1 - URGENT"

\* C7: every row of rank_pincodes has risk_level HIGH iff aer < 0.005,
\* MEDIUM iff 0.005 <= aer < 0.02 and LOW iff aer >= 0.02, whatever the
\* ranking metric.
C7_RiskLevelByAer ==
    ret.op = "rank_pincodes" =>
        \A k \in DOMAIN ret.rows :
            LET r == ret.rows[k]
                below5 == AerBelow(r.age_18_greater, CountsTotal(r), 5, 1000)
                below20 == AerBelow(r.age_18_greater, CountsTotal(r), 20, 1000)
            IN  /\ IsAer(r.aer, r.age_18_greater, CountsTotal(r))
                /\ (r.risk_level = "HIGH") <=> below5
                /\ (r.risk_level = "MEDIUM") <=> (~below5 /\ below20)
                /\ (r.risk_level = "LOW") <=> ~below20

\* a ranking by another metric than aer that holds all three levels
C7_AllLevelsOtherMetric ==
    /\ ret.op = "rank_pincodes"
    /\ ret.metric # "aer"
    /\ {ret.rows[k].risk_level : k \in DOMAIN ret.rows} = {"HIGH", "MEDIUM", "LOW"}
    /\ ret.rows[1].risk_level = "LOW"

\* C8: every row of rank_pincodes gets its recommendation by the first
\* matching rule: no adults, aer < 0.01, aer < 0.03, aer < 0.05, otherwise.
C8_RecommendationLadder ==
    ret.op = "rank_pincodes" =>
        \A k \in DOMAIN ret.rows :
            LET r == ret.rows[k]
                Below(pct) == AerBelow(r.age_18_greater, CountsTotal(r), pct, 100)
            IN  r.recommendation =
                    IF r.age_18_greater = 0 THEN "Targeted adult drive needed"
                    ELSE IF Below(1) THEN "Adult outreach required"
                    ELSE IF Below(3) THEN "Moderate improvement needed"
                    ELSE IF Below(5) THEN "Slight optimization possible"
                    ELSE "Best-practice center"

\* the PIN with counts (50, 10, 0) is told 'Targeted adult drive needed'
C8_ZeroAdultsFirst ==
    /\ ret.op = "rank_pincodes"
    /\ \E k \in DOMAIN ret.rows :
           /\ ret.rows[k].age_0_5 = 50
           /\ ret.rows[k].age_5_17 = 10
           /\ ret.rows[k].age_18_greater = 0
           /\ ret.rows[k].recommendation = "Targeted adult drive needed"

\* C9: for non-negative integer counts calculate_aer returns
\* c2 / (c0 + c1 + c2), a value in [0, 1], and exactly 0 for all-zero counts.
C9_AerIsAdultShare ==
    ret.op = "calculate_aer" =>
        LET total == ret.age_0_5 + ret.age_5_17 + ret.age_18_greater
            v == ret.value
        IN  /\ IsAer(v, ret.age_18_greater, total)
            /\ 0 <= v.num
            /\ v.num <= v.den

\* all three counts are zero
C9_AllZeroCounts ==
    /\ ret.op = "calculate_aer"
    /\ ret.age_0_5 + ret.age_5_17 + ret.age_18_greater = 0
    /\ ret.value = FInt(0)

\* C10: calculate_aebi returns 0 when total = 0 and otherwise
\* 100*c2/total + 1 - |c1/total - 0.05| / 0.1 clamped to [0, 100]; over the
\* denominator 2*total that value is 200*c2 + 2*total - |20*c1 - total|.
C10_AebiIsClampedFormula ==
    ret.op = "calculate_aebi" =>
        LET v == ret.value
        IN  /\ IsAebi(v, ret.age_0_5, ret.age_5_17, ret.age_18_greater)
            /\ 0 <= v.num
            /\ v.num <= 100 * v.den

\* all enrollments are adults: the unclamped value 100.5 is returned as 100
C10_ClampActs ==
    /\ ret.op = "calculate_aebi"
    /\ ret.age_18_greater > 0
    /\ ret.age_0_5 + ret.age_5_17 = 0
    /\ ret.value = FInt(100)

---------------------------------------------------------------------------
(* The grade classifiers as functions of one number                        *)

\* aer runs over the thousandths 0, 0.001, ..., MaxAerMilli / 1000
MaxAerMilli == 60

\* aebi runs over the halves 0, 0.5, ..., MaxAebiHalves / 2
MaxAebiHalves == 200

ClassifyAerGrade ==
    \E k \in 0..MaxAerMilli :
        /\ FirstCall
        /\ ret' = [op |-> "classify_aer_grade", milli |-> k,
                   value |-> classify_aer_grade(Frac(k, 1000))]
        /\ UNCHANGED <<rankings_cache, df, district_rankings, pincode_rankings>>

ClassifyAebiGrade ==
    \E k \in 0..MaxAebiHalves :
        /\ FirstCall
        /\ ret' = [op |-> "classify_aebi_grade", halves |-> k,
                   value |-> classify_aebi_grade(Frac(k, 2))]
        /\ UNCHANGED <<rankings_cache, df, district_rankings, pincode_rankings>>

SpecGrades == InitMetrics /\ [][ClassifyAerGrade \/ ClassifyAebiGrade]_vars

\* C11: classify_aer_grade gives GREEN for aer >= 0.05, YELLOW for
\* 0.01 <= aer < 0.05 and RED for aer < 0.01; classify_aebi_grade gives GREEN
\* for aebi >= 7, YELLOW for 3 <= aebi < 7 and RED for aebi < 3; every input
\* gets exactly one grade.
C11_GradesByThreshold ==
    /\ ret.op = "classify_aer_grade" =>
           ret.value = IF ret.milli >= 50 THEN "GREEN"
                       ELSE IF ret.milli >= 10 THEN "YELLOW"
                       ELSE "RED"
    /\ ret.op = "classify_aebi_grade" =>
           ret.value = IF ret.halves >= 14 THEN "GREEN"
                       ELSE IF ret.halves >= 6 THEN "YELLOW"
                       ELSE "RED"

\* aer == 0.05 is GREEN
C11_BoundaryIsGreen ==
    /\ ret.op = "classify_aer_grade"
    /\ ret.milli = 50
    /\ ret.value = "GREEN"

---------------------------------------------------------------------------
(* The stage entry points as functions of the columns of their argument:   *)
(* which columns each one looks up, and what it does when one is absent.   *)
(* An outcome says whether the call raised, which columns the error names, *)
(* which columns had been computed by then, and the columns of the table   *)
(* returned.                                                               *)

EnrollmentCols == {"age_0_5", "age_5_17", "age_18_greater"}

KeyCols == {"date", "district", "pincode"}

AllColumns == KeyCols \cup EnrollmentCols \cup {"total_enrollments", "year_month"}

DateColumns == {"year", "month", "month_name", "year_month"}

MetricColumns ==
    {"aer", "caes", "aebi", "aer_pct", "child_pct", "youth_pct", "adult_pct",
     "aer_grade", "aebi_grade", "priority_score"}

Raised(names) ==
    [raised |-> TRUE, names |-> names, computed |-> {}, columns |-> {}]

Returned(columns, computed) ==
    [raised |-> FALSE, names |-> {}, computed |-> computed,
     columns |-> columns \cup computed]

\* the first name of the list keys that is not a column: df.groupby(keys)
\* raises KeyError with that name
FirstMissing(keys, columns) ==
    LET i == CHOOSE j \in DOMAIN keys :
                 /\ keys[j] \notin columns
                 /\ \A k \in 1..(j - 1) : keys[k] \in columns
    IN  keys[i]

\* df.groupby(keys).agg({c: ... for c in aggregated}): KeyError for an absent
\* key, then KeyError "Column(s) [...] do not exist" for absent columns
GroupByAggColumns(keys, aggregated, columns) ==
    IF Range(keys) \ columns # {}
    THEN Raised({FirstMissing(keys, columns)})
    ELSE IF aggregated \ columns # {}
    THEN Raised(aggregated \ columns)
    ELSE Returned({}, Range(keys) \cup aggregated)

\* clean_data: every step is skipped when its column is absent
clean_data_columns(columns) ==
    LET pincode_valid == IF "pincode" \in columns THEN {"pincode_valid"} ELSE {}
        total == IF EnrollmentCols \subseteq columns
                 THEN {"total_enrollments"} ELSE {}
        dates == IF "date" \in columns THEN DateColumns ELSE {}
    IN  Returned(columns, pincode_valid \cup total \cup dates)

\* aggregate_monthly: returns its argument when 'date' is absent; sums the
\* count columns that are present and total_enrollments
aggregate_monthly_columns(columns) ==
    IF "date" \notin columns THEN Returned(columns, {})
    ELSE GroupByAggColumns(<<"year_month", "district", "pincode">>,
                           (EnrollmentCols \cap columns) \cup {"total_enrollments"},
                           columns)

\* (a variant that computes the metrics of the absent counts as zeros)
add_metrics_to_dataframe_zeros(columns) ==
    Returned(columns, {"total_enrollments"} \cup MetricColumns)

\* add_metrics_to_dataframe: the check of required_cols comes first
add_metrics_to_dataframe_columns(columns) ==
    LET missing_cols == EnrollmentCols \ columns
    IN  IF missing_cols # {} THEN Raised(missing_cols)
        ELSE Returned(columns, {"total_enrollments"} \cup MetricColumns)

\* the three rankings: group, sum agg_dict, add the metrics, add own columns
RankingColumns(keys, own, columns) ==
    LET grouped == GroupByAggColumns(keys,
                       EnrollmentCols \cup {"total_enrollments"}, columns)
    IN  IF grouped.raised THEN grouped
        ELSE Returned(grouped.columns, MetricColumns \cup own)

rank_districts_columns(columns) ==
    RankingColumns(<<"district">>, {"rank", "priority"}, columns)

rank_pincodes_columns(columns) ==
    RankingColumns(<<"district", "pincode">>,
                   {"rank", "risk_level", "recommendation"}, columns)

identify_priority_zones_columns(columns) ==
    RankingColumns(<<"district", "pincode">>, {"tier"}, columns)

InitSchema ==
    /\ df \in {[columns |-> c] : c \in SUBSET AllColumns}
    /\ district_rankings = None
    /\ pincode_rankings = None
    /\ rankings_cache = None
    /\ ret = NoCall

Outcome(op, outcome) == [op |-> op, columns |-> df.columns, outcome |-> outcome]

SchemaCleanData ==
    /\ FirstCall
    /\ ret' = Outcome("clean_data", clean_data_columns(df.columns))
    /\ UNCHANGED <<rankings_cache, df, district_rankings, pincode_rankings>>

SchemaAggregateMonthly ==
    /\ FirstCall
    /\ ret' = Outcome("aggregate_monthly", aggregate_monthly_columns(df.columns))
    /\ UNCHANGED <<rankings_cache, df, district_rankings, pincode_rankings>>

SchemaAddMetrics ==
    /\ FirstCall
    /\ ret' = Outcome("add_metrics_to_dataframe",
                      add_metrics_to_dataframe_columns(df.columns))
    /\ UNCHANGED <<rankings_cache, df, district_rankings, pincode_rankings>>

SchemaRankDistricts ==
    /\ FirstCall
    /\ ret' = Outcome("rank_districts", rank_districts_columns(df.columns))
    /\ UNCHANGED <<rankings_cache, df, district_rankings, pincode_rankings>>

SchemaRankPincodes ==
    /\ FirstCall
    /\ ret' = Outcome("rank_pincodes", rank_pincodes_columns(df.columns))
    /\ UNCHANGED <<rankings_cache, df, district_rankings, pincode_rankings>>

SchemaIdentifyPriorityZones ==
    /\ FirstCall
    /\ ret' = Outcome("identify_priority_zones",
                      identify_priority_zones_columns(df.columns))
    /\ UNCHANGED <<rankings_cache, df, district_rankings, pincode_rankings>>

SpecSchema ==
    InitSchema /\ [][SchemaCleanData \/ SchemaAggregateMonthly \/ SchemaAddMetrics
                         \/ SchemaRankDistricts \/ SchemaRankPincodes
                         \/ SchemaIdentifyPriorityZones]_vars

\* C16: add_metrics_to_dataframe on a table without one of the three count
\* columns raises an error that names exactly the absent count columns, and
\* has computed no column by then.
C16_MissingCountsFailFast ==
    (ret.op = "add_metrics_to_dataframe" /\ ~(EnrollmentCols \subseteq ret.columns))
        => /\ ret.outcome.raised
           /\ ret.outcome.names = EnrollmentCols \ ret.columns
           /\ ret.outcome.computed = {}
           /\ ret.outcome.columns = {}

\* two of the three count columns are absent and both are named
C16_TwoCountsMissing ==
    /\ ret.op = "add_metrics_to_dataframe"
    /\ ret.columns \cap EnrollmentCols = {"age_5_17"}
    /\ ret.outcome.raised
    /\ ret.outcome.names = {"age_0_5", "age_18_greater"}

\* the columns a stage needs
RequiredColumns(op) ==
    IF op \in {"clean_data", "aggregate_monthly"} THEN KeyCols \cup EnrollmentCols
    ELSE IF op = "add_metrics_to_dataframe" THEN EnrollmentCols
    ELSE IF op = "rank_districts" THEN {"district"} \cup EnrollmentCols
    ELSE {"district", "pincode"} \cup EnrollmentCols

\* C17: every stage entry point, on a table without one of its required
\* columns, raises an error that names an absent column and returns nothing.
C17_EveryStageFailsFast ==
    (ret.op # "none" /\ ~(RequiredColumns(ret.op) \subseteq ret.columns))
        => /\ ret.outcome.raised
           /\ ret.outcome.names # {}
           /\ ret.outcome.names \cap ret.columns = {}
           /\ ret.outcome.computed = {}

---------------------------------------------------------------------------
(* The dashboard's cached calculate_rankings(_df).  st.cache_data keys an   *)
(* entry by the function and its hashed arguments, and leaves an argument   *)
(* whose name starts with an underscore out of the key: the function has    *)
(* one entry whatever table it is given.                                    *)

MaxDashboardRows == 1

DashboardInputs == {t \in Inputs : Len(t) <= MaxDashboardRows}

\* the body of calculate_rankings: a new engine and the three calls with the
\* dashboard's parameters (every result the calls can give)
calculate_rankings(t) ==
    {<<district_rankings_, pincode_rankings_, priority_zones>> :
        district_rankings_ \in rank_districts(t, "aer"),
        pincode_rankings_ \in rank_pincodes(t, "aer", 10),
        priority_zones \in identify_priority_zones(t, Frac(1, 100), 50)}

InitDashboard ==
    /\ df = <<>>
    /\ district_rankings = None
    /\ pincode_rankings = None
    /\ rankings_cache = None
    /\ ret = NoCall

\* a call that finds no entry runs the body and stores what it returned
CalculateRankingsMiss ==
    \E _df \in DashboardInputs :
      \E value \in calculate_rankings(_df) :
        /\ rankings_cache.isNone
        /\ rankings_cache' = [isNone |-> FALSE, value |-> value]
        /\ ret' = [op |-> "calculate_rankings", df |-> _df, value |-> value]
        /\ UNCHANGED <<df, district_rankings, pincode_rankings>>

\* a call that finds the entry returns it
CalculateRankingsHit ==
    \E _df \in DashboardInputs :
        /\ ~rankings_cache.isNone
        /\ ret' = [op |-> "calculate_rankings", df |-> _df,
                   value |-> rankings_cache.value]
        /\ UNCHANGED <<df, district_rankings, pincode_rankings, rankings_cache>>

SpecDashboard ==
    InitDashboard /\ [][CalculateRankingsMiss \/ CalculateRankingsHit]_vars

\* C20: every call of the cached calculate_rankings returns what an uncached
\* run of its body on the table passed to that call returns.
C20_CachedEqualsUncached ==
    ret.op = "calculate_rankings" => ret.value \in calculate_rankings(ret.df)

---------------------------------------------------------------------------
(* analyze_within_district_variation.  std_aer and cv_aer are square roots; *)
(* the model keeps their squares, which are exact fractions and order the   *)
(* rows as cv_aer does (cv_aer >= 0).  NaN is the sample deviation of one   *)
(* value.                                                                   *)

NaN == [nan |-> TRUE]

RECURSIVE FSum(_)
FSum(s) == IF s = <<>> THEN FInt(0) ELSE FAdd(Head(s), FSum(Tail(s)))

\* the values of s in ascending order
RECURSIVE SortFracs(_)
SortFracs(s) ==
    IF s = <<>> THEN <<>>
    ELSE LET i == CHOOSE j \in DOMAIN s : \A k \in DOMAIN s : ~FLt(s[k], s[j])
         IN  <<s[i]>> \o SortFracs(SubSeq(s, 1, i - 1) \o SubSeq(s, i + 1, Len(s)))

Mean(s) == FDiv(FSum(s), FInt(Len(s)))

Median(s) ==
    LET sorted == SortFracs(s)
        n == Len(s)
    IN  IF n % 2 = 1 THEN sorted[(n + 1) \div 2]
        ELSE FDiv(FAdd(sorted[n \div 2], sorted[n \div 2 + 1]), FInt(2))

\* Series.std() squared: the sample variance (ddof = 1)
Variance(s) ==
    IF Len(s) < 2 THEN NaN
    ELSE LET mean == Mean(s)
             squares == [i \in DOMAIN s |->
                            FMul(FSub(s[i], mean), FSub(s[i], mean))]
         IN  FDiv(FSum(squares), FInt(Len(s) - 1))

\* (std / mean * 100 if mean > 0 else 0), squared
CvSquared(s) ==
    IF ~FLt(FInt(0), Mean(s)) THEN FInt(0)
    ELSE IF Len(s) < 2 THEN NaN
    ELSE FMul(FInt(10000), FDiv(Variance(s), FMul(Mean(s), Mean(s))))

\* Series.idxmax() / idxmin(): the first position of the extreme value
IdxMax(s) ==
    CHOOSE i \in DOMAIN s :
        /\ \A k \in DOMAIN s : ~FLt(s[i], s[k])
        /\ \A k \in 1..(i - 1) : FLt(s[k], s[i])

IdxMin(s) ==
    CHOOSE i \in DOMAIN s :
        /\ \A k \in DOMAIN s : ~FLt(s[k], s[i])
        /\ \A k \in 1..(i - 1) : FLt(s[i], s[k])

\* the stats dictionary of one district
VariationStats(district_pins) ==
    LET aer == [i \in DOMAIN district_pins |-> district_pins[i].aer]
    IN  [district         |-> district_pins[1].district,
         num_pincodes     |-> Len(district_pins),
         mean_aer         |-> Mean(aer),
         median_aer       |-> Median(aer),
         std_aer_squared  |-> Variance(aer),
         min_aer          |-> aer[IdxMin(aer)],
         max_aer          |-> aer[IdxMax(aer)],
         cv_aer_squared   |-> CvSquared(aer),
         range_aer        |-> FSub(aer[IdxMax(aer)], aer[IdxMin(aer)]),
         best_pincode     |-> district_pins[IdxMax(aer)].pincode,
         worst_pincode    |-> district_pins[IdxMin(aer)].pincode]

\* sort_values('cv_aer', ascending=False): NaN last, equal values in any order
CvBefore(a, b) ==
    \/ a.cv_aer_squared # NaN /\ b.cv_aer_squared = NaN
    \/ /\ a.cv_aer_squared # NaN
       /\ b.cv_aer_squared # NaN
       /\ FLt(b.cv_aer_squared, a.cv_aer_squared)

RECURSIVE DescendingCvOrders(_, _)
DescendingCvOrders(t, idx) ==
    IF idx = {} THEN {<<>>}
    ELSE LET first == {i \in idx : \A j \in idx : ~CvBefore(t[j], t[i])}
         IN  UNION {{<<t[i]>> \o rest : rest \in DescendingCvOrders(t, idx \ {i})}
                    : i \in first}

\* pd.DataFrame(variation_stats).sort_values('cv_aer', ascending=False): the
\* frame made from an empty list has no columns and the sort raises
\* KeyError: 'cv_aer'
sort_variation(variation_stats) ==
    IF variation_stats = <<>>
    THEN {[raised |-> TRUE, rows |-> <<>>]}
    ELSE {[raised |-> FALSE, rows |-> rows]
             : rows \in DescendingCvOrders(variation_stats, DOMAIN variation_stats)}

\* the outcomes of analyze_within_district_variation(t, min_pincodes)
analyze_within_district_variation(t, min_pincodes) ==
    LET pincode_data == add_metrics_to_dataframe(GroupByDistrictPincode(t))
        districts == SortedKeys({<<r.district>> : r \in Range(pincode_data)})
        Pins(d) == LET In(r) == r.district = d[1]
                   IN  SelectSeq(pincode_data, In)
        Analyzed(d) == Len(Pins(d)) >= min_pincodes
        variation_stats ==
            Table([i \in DOMAIN SelectSeq(districts, Analyzed) |->
                      VariationStats(Pins(SelectSeq(districts, Analyzed)[i]))])
    IN  sort_variation(variation_stats)

\* small counts keep the squares within the integers of the checker
VariationCounts == << <<1, 0, 0>>, <<0, 0, 1>>, <<1, 0, 1>>, <<3, 0, 1>> >>

MaxVariationRows == 3

VariationOption(o) ==
    LET key == Keys[((o - 1) \div Len(VariationCounts)) + 1]
        counts == VariationCounts[((o - 1) % Len(VariationCounts)) + 1]
    IN  [district |-> key[1], pincode |-> key[2],
         age_0_5 |-> counts[1], age_5_17 |-> counts[2],
         age_18_greater |-> counts[3],
         total_enrollments |-> counts[1] + counts[2] + counts[3]]

RECURSIVE VariationTables(_, _)
VariationTables(n, lo) ==
    IF n = 0 THEN {<<>>}
    ELSE UNION {{<<VariationOption(o)>> \o rest
                    : rest \in VariationTables(n - 1, o)}
                : o \in lo..(Len(Keys) * Len(VariationCounts))}

\* min_pincodes: the default 5 and two values the small tables can reach
MinPincodes == {1, 2, 5}

InitVariation ==
    /\ df \in UNION {VariationTables(n, 1) : n \in 0..MaxVariationRows}
    /\ district_rankings = None
    /\ pincode_rankings = None
    /\ rankings_cache = None
    /\ ret = NoCall

AnalyzeWithinDistrictVariation ==
    \E min_pincodes \in MinPincodes :
      \E outcome \in analyze_within_district_variation(df, min_pincodes) :
        /\ FirstCall
        /\ ret' = [op |-> "analyze_within_district_variation",
                   min_pincodes |-> min_pincodes,
                   raised |-> outcome.raised, rows |-> outcome.rows]
        /\ UNCHANGED <<df, district_rankings, pincode_rankings, rankings_cache>>

SpecVariation == InitVariation /\ [][AnalyzeWithinDistrictVariation]_vars

\* the number of (district, pincode) aggregates of district d in the input
NumPincodes(d) == Cardinality({key \in DfKeys : key[1] = d})

\* C15: when no district has min_pincodes PIN codes,
\* analyze_within_district_variation returns an empty table and does not
\* raise.
C15_EmptyResultNotError ==
    (/\ ret.op = "analyze_within_district_variation"
     /\ \A d \in DfDistricts : NumPincodes(d) < ret.min_pincodes)
        => /\ ~ret.raised
           /\ ret.rows = <<>>

---------------------------------------------------------------------------
(* DataPreprocessor.  A raw record has a date text, a district name, a PIN  *)
(* text (a sequence of characters), three counts that may be missing, and   *)
(* two further columns: a total_enrollments of its own and a state name.    *)

\* a date text is its separator and its three numbers, as in 05-01-2025,
\* 2025-01-05 or 01/02/2025; a text that is no date has no numbers
DateText(sep, a, b, c) == [sep |-> sep, parts |-> <<a, b, c>>]

NotADate == [sep |-> "", parts |-> <<>>]

NaT == [nat |-> TRUE]

Timestamp(year, month, day) == [year |-> year, month |-> month, day |-> day]

DaysInMonth == <<31, 28, 31, 30, 31, 30, 31, 31, 30, 31, 30, 31>>

\* self.date_formats
date_formats == <<"%d-%m-%Y", "%Y-%m-%d", "%m/%d/%Y", "%d/%m/%Y">>

\* pd.to_datetime(text, format=fmt, errors="coerce"); a value that is a
\* datetime already (a Timestamp or NaT) is returned as it is
to_datetime(text, fmt) ==
    LET sep == IF fmt \in {"%d-%m-%Y", "%Y-%m-%d"} THEN "-" ELSE "/"
        p == text.parts
        year == IF fmt = "%Y-%m-%d" THEN p[1] ELSE p[3]
        month == IF fmt = "%m/%d/%Y" THEN p[1] ELSE p[2]
        day == IF fmt = "%Y-%m-%d" THEN p[3]
               ELSE IF fmt = "%m/%d/%Y" THEN p[2] ELSE p[1]
    IN  IF "parts" \notin DOMAIN text THEN text
        ELSE IF /\ text.sep = sep
                /\ Len(p) = 3
                /\ year \in 1000..9999
                /\ month \in 1..12
                /\ day \in 1..31
                /\ day <= DaysInMonth[month]
        THEN Timestamp(year, month, day)
        ELSE NaT

ValidCount(t, fmt) ==
    Cardinality({i \in DOMAIN t : to_datetime(t[i].date, fmt) # NaT})

\* the format that parses the most dates, the earliest of the list among
\* equals, when one parses any
BestFormats(t) ==
    {f \in DOMAIN date_formats :
        /\ ValidCount(t, date_formats[f]) > 0
        /\ \A g \in DOMAIN date_formats :
               /\ ValidCount(t, date_formats[g]) <= ValidCount(t, date_formats[f])
               /\ g < f => ValidCount(t, date_formats[g])
                               < ValidCount(t, date_formats[f])}

\* _parse_dates: the dates read with the best format; a text that it does
\* not read becomes NaT.  When no format reads any text the generic parser is
\* used, which reads none of the texts of the model either.
parse_dates(t) ==
    Table([i \in DOMAIN t |->
        [t[i] EXCEPT !.date =
            IF BestFormats(t) = {} THEN NaT
            ELSE to_datetime(t[i].date,
                             date_formats[CHOOSE f \in BestFormats(t) : TRUE])]])

\* str.strip() (the padded names of the model)
strip(name) == IF name = " Hyderabad " THEN "Hyderabad" ELSE name

\* district_mapping
district_mapping(name) ==
    IF name \in {"Ranga Reddy", "RangaReddy", "Ranga reddy", "RANGAREDDY"}
    THEN "Rangareddy"
    ELSE IF name = "HYDERABAD" THEN "Hyderabad"
    ELSE IF name = "NALGONDA" THEN "Nalgonda"
    ELSE name

\* _standardize_districts
standardize_districts(t) ==
    Table([i \in DOMAIN t |->
        [t[i] EXCEPT !.district = district_mapping(strip(t[i].district))]])

Digits == {"0", "1", "2", "3", "4", "5", "6", "7", "8", "9"}

Newline == "\n"

\* str.replace(r"\.0$", "", regex=True): $ is the end of the text or the
\* place before a newline that ends it
StripDotZero(s) ==
    LET n == Len(s)
    IN  IF n >= 2 /\ s[n - 1] = "." /\ s[n] = "0" THEN SubSeq(s, 1, n - 2)
        ELSE IF n >= 3 /\ s[n - 2] = "." /\ s[n - 1] = "0" /\ s[n] = Newline
        THEN SubSeq(s, 1, n - 3) \o <<Newline>>
        ELSE s

\* str.match(r"^\d{6}$")
MatchSixDigits(s) ==
    /\ Len(s) \in {6, 7}
    /\ \A i \in 1..6 : s[i] \in Digits
    /\ Len(s) = 7 => s[7] = Newline

\* the text of int(s): no newline, no leading zeros
RECURSIVE DropLeadingZeros(_)
DropLeadingZeros(s) ==
    IF Len(s) > 1 /\ Head(s) = "0" THEN DropLeadingZeros(Tail(s)) ELSE s

IntText(s) == DropLeadingZeros(SubSeq(s, 1, 6))

\* _clean_pincodes: a cleaned PIN is an integer (given by its digits) where
\* valid and the text otherwise
clean_pincodes(t) ==
    Table([i \in DOMAIN t |->
        LET text == StripDotZero(t[i].pincode)
            valid == MatchSixDigits(text)
        IN  [pincode_valid |-> valid]
            @@ [t[i] EXCEPT !.pincode =
                   IF valid THEN [is_int |-> TRUE, text |-> IntText(text)]
                   ELSE [is_int |-> FALSE, text |-> text]]])

\* fillna(0).clip(lower=0) of one raw count
FillAndClip(count) ==
    IF count = NaN THEN 0 ELSE IF count.v < 0 THEN 0 ELSE count.v

\* (a variant that keeps negative counts)
handle_missing_values_no_clip(t) ==
    Table([i \in DOMAIN t |->
        [t[i] EXCEPT !.age_0_5 = IF @ = NaN THEN 0 ELSE @.v,
                     !.age_5_17 = IF @ = NaN THEN 0 ELSE @.v,
                     !.age_18_greater = IF @ = NaN THEN 0 ELSE @.v]])

\* _handle_missing_values
handle_missing_values(t) ==
    Table([i \in DOMAIN t |->
        [t[i] EXCEPT !.age_0_5 = FillAndClip(@),
                     !.age_5_17 = FillAndClip(@),
                     !.age_18_greater = FillAndClip(@)]])

\* _validate_enrollments only prints
validate_enrollments(t) == t

\* groupby sorts the groups by their keys: dates by time, names as texts,
\* PIN values with the integers before the texts.  The names and PIN values
\* of the model in that order:
DistrictOrder == <<"Hyderabad", "Rangareddy">>

PincodeOrder ==
    <<[is_int |-> TRUE, text |-> <<"5", "0", "0", "0", "0", "1">>],
      [is_int |-> FALSE, text |-> <<"5", "0", "0", "0", "1">>]>>

Position(v, order) == CHOOSE i \in DOMAIN order : order[i] = v

DateOrder(date) == (date.year * 12 + date.month) * 31 + date.day

RECURSIVE LexLess(_, _)
LexLess(a, b) ==
    /\ a # <<>>
    /\ \/ Head(a) < Head(b)
       \/ Head(a) = Head(b) /\ LexLess(Tail(a), Tail(b))

RECURSIVE SortedCodes(_)
SortedCodes(S) ==
    IF S = {} THEN <<>>
    ELSE LET m == CHOOSE k \in S : \A o \in S : o = k \/ LexLess(k, o)
         IN  <<m>> \o SortedCodes(S \ {m})

\* GroupBy.first(): the first value of the column that is not null
First(t, idx, col) ==
    LET filled == {i \in idx : t[i][col] # NaN}
    IN  IF filled = {} THEN NaN
        ELSE t[CHOOSE i \in filled : \A j \in filled : i <= j][col]

\* GroupBy.first() of a column without nulls: the value of the first record
FirstRecord(t, idx, col) == t[CHOOSE i \in idx : \A j \in idx : i <= j][col]

DuplicateKey(r) == <<r.date, r.district, r.pincode>>

DuplicateCode(r) ==
    <<DateOrder(r.date), Position(r.district, DistrictOrder),
      Position(r.pincode, PincodeOrder)>>

\* df.duplicated(subset=key_cols, keep=False); null keys are equal keys
Duplicated(t) ==
    {i \in DOMAIN t : \E j \in DOMAIN t : j # i /\ DuplicateKey(t[j]) = DuplicateKey(t[i])}

\* _remove_duplicates: when a key occurs twice the whole table is grouped by
\* (date, district, pincode); groupby leaves out the rows with a null key
\* (dropna=True), and a date is the only key that can be null here
remove_duplicates(t) ==
    IF Duplicated(t) = {} THEN t
    ELSE LET dated == {i \in DOMAIN t : t[i].date # NaT}
             codes == SortedCodes({DuplicateCode(t[i]) : i \in dated})
         IN  Table([g \in DOMAIN codes |->
                 LET idx == {i \in dated : DuplicateCode(t[i]) = codes[g]}
                     any == t[CHOOSE i \in idx : TRUE]
                 IN  [date              |-> any.date,
                      district          |-> any.district,
                      pincode           |-> any.pincode,
                      age_0_5           |-> SumOver(t, idx, "age_0_5"),
                      age_5_17          |-> SumOver(t, idx, "age_5_17"),
                      age_18_greater    |-> SumOver(t, idx, "age_18_greater"),
                      pincode_valid     |-> FirstRecord(t, idx, "pincode_valid"),
                      total_enrollments |-> FirstRecord(t, idx, "total_enrollments"),
                      state             |-> First(t, idx, "state")]])

month_names ==
    <<"January", "February", "March", "April", "May", "June", "July",
      "August", "September", "October", "November", "December">>

\* (a variant that keeps a total_enrollments column that is there)
add_derived_columns_keep_total(t) ==
    Table([i \in DOMAIN t |->
        LET r == t[i]
        IN  r @@ [year       |-> IF r.date = NaT THEN NaN ELSE [v |-> r.date.year],
                  month      |-> IF r.date = NaT THEN NaN ELSE [v |-> r.date.month],
                  month_name |-> IF r.date = NaT THEN NaN
                                 ELSE [v |-> month_names[r.date.month]],
                  year_month |-> IF r.date = NaT THEN NaT
                                 ELSE [year |-> r.date.year, month |-> r.date.month]]])

\* _add_derived_columns; each column replaces a column of that name
add_derived_columns(t) ==
    Table([i \in DOMAIN t |->
        LET r == t[i]
        IN  [year       |-> IF r.date = NaT THEN NaN ELSE [v |-> r.date.year],
             month      |-> IF r.date = NaT THEN NaN ELSE [v |-> r.date.month],
             month_name |-> IF r.date = NaT THEN NaN
                            ELSE [v |-> month_names[r.date.month]],
             year_month |-> IF r.date = NaT THEN NaT
                            ELSE [year |-> r.date.year, month |-> r.date.month]]
            @@ [r EXCEPT !.total_enrollments =
                             r.age_0_5 + r.age_5_17 + r.age_18_greater]])

\* clean_data: the seven steps in order
clean_data(t) ==
    add_derived_columns(
        remove_duplicates(
            validate_enrollments(
                handle_missing_values(
                    clean_pincodes(standardize_districts(parse_dates(t)))))))

\* the text 'NaT' sorts after the texts of the months
MonthlyCode(r) ==
    <<IF r.year_month = NaT THEN 10000 * 12
      ELSE r.year_month.year * 12 + r.year_month.month,
      Position(r.district, DistrictOrder), Position(r.pincode, PincodeOrder)>>

\* aggregate_monthly on a cleaned table: one row per
\* (year_month, district, pincode) with the sums of agg_dict
\* (a variant that groups by the date, which leaves out the records without one)
aggregate_monthly_dated(t) ==
    LET dated == {i \in DOMAIN t : t[i].date # NaT}
        codes == SortedCodes({MonthlyCode(t[i]) : i \in dated})
    IN  Table([g \in DOMAIN codes |->
            LET idx == {i \in dated : MonthlyCode(t[i]) = codes[g]}
                any == t[CHOOSE i \in idx : TRUE]
            IN  [year_month        |-> any.year_month,
                 district          |-> any.district,
                 pincode           |-> any.pincode,
                 age_0_5           |-> SumOver(t, idx, "age_0_5"),
                 age_5_17          |-> SumOver(t, idx, "age_5_17"),
                 age_18_greater    |-> SumOver(t, idx, "age_18_greater"),
                 total_enrollments |-> SumOver(t, idx, "total_enrollments")]])

aggregate_monthly(t) ==
    LET codes == SortedCodes({MonthlyCode(t[i]) : i \in DOMAIN t})
    IN  Table([g \in DOMAIN codes |->
            LET idx == {i \in DOMAIN t : MonthlyCode(t[i]) = codes[g]}
                any == t[CHOOSE i \in idx : TRUE]
            IN  [year_month        |-> any.year_month,
                 district          |-> any.district,
                 pincode           |-> any.pincode,
                 age_0_5           |-> SumOver(t, idx, "age_0_5"),
                 age_5_17          |-> SumOver(t, idx, "age_5_17"),
                 age_18_greater    |-> SumOver(t, idx, "age_18_greater"),
                 total_enrollments |-> SumOver(t, idx, "total_enrollments")]])

\* what the rankings read of a cleaned or monthly table: the counts, the
\* total, and the place of each district and PIN in the order of its values
RankingTable(t) ==
    Table([i \in DOMAIN t |->
        [district          |-> Position(t[i].district, DistrictOrder),
         pincode           |-> Position(t[i].pincode, PincodeOrder),
         age_0_5           |-> t[i].age_0_5,
         age_5_17          |-> t[i].age_5_17,
         age_18_greater    |-> t[i].age_18_greater,
         total_enrollments |-> t[i].total_enrollments]])

---------------------------------------------------------------------------
(* The pipeline from raw records: clean_data, then aggregate_monthly when   *)
(* asked for, then the rankings with the dashboard's parameters            *)

Pin500001 == <<"5", "0", "0", "0", "0", "1">>

Pin50001 == <<"5", "0", "0", "0", "1">>

\* two days of one month in the first layout, the first day again in the
\* second layout, and a text that is no date
RawDates ==
    <<DateText("-", 5, 1, 2025), DateText("-", 20, 1, 2025),
      DateText("-", 2025, 1, 5), NotADate>>

\* two spellings of one district with one PIN, and a district with a PIN of
\* five digits
RawPlaces ==
    << <<"Rangareddy", Pin500001>>, <<"Ranga Reddy", Pin500001>>,
       <<"Hyderabad", Pin50001>> >>

\* counts (a missing and a negative one in the third), a total_enrollments
\* that is not their sum, and a state name that may be missing
RawCounts ==
    << <<[v |-> 2], [v |-> 3], [v |-> 1], 0, [v |-> "TS"]>>,
       <<[v |-> 1], [v |-> 0], [v |-> 4], 999, NaN>>,
       <<NaN, [v |-> 60], [v |-> -4], 7, [v |-> "AP"]>> >>

MaxRawRows == 2

NumRawOptions == Len(RawDates) * Len(RawPlaces) * Len(RawCounts)

RawRecord(date, place, counts) ==
    [date              |-> date,
     district          |-> place[1],
     pincode           |-> place[2],
     age_0_5           |-> counts[1],
     age_5_17          |-> counts[2],
     age_18_greater    |-> counts[3],
     total_enrollments |-> counts[4],
     state             |-> counts[5]]

RawOption(o) ==
    RawRecord(RawDates[((o - 1) \div (Len(RawPlaces) * Len(RawCounts))) + 1],
              RawPlaces[(((o - 1) \div Len(RawCounts)) % Len(RawPlaces)) + 1],
              RawCounts[((o - 1) % Len(RawCounts)) + 1])

\* the raw tables of n records, the records in the order of the options
RECURSIVE RawTables(_, _)
RawTables(n, lo) ==
    IF n = 0 THEN {<<>>}
    ELSE UNION {{<<RawOption(o)>> \o rest : rest \in RawTables(n - 1, o)}
                : o \in lo..NumRawOptions}

InitPipeline ==
    /\ df \in UNION {RawTables(n, 1) : n \in 0..MaxRawRows}
    /\ district_rankings = None
    /\ pincode_rankings = None
    /\ rankings_cache = None
    /\ ret = NoCall

\* preprocessor.clean_data(df)
CleanData ==
    /\ FirstCall
    /\ df' = clean_data(df)
    /\ ret' = [op |-> "clean_data", raw |-> df, rows |-> df']
    /\ UNCHANGED <<district_rankings, pincode_rankings, rankings_cache>>

\* preprocessor.aggregate_monthly(df_clean)
AggregateMonthly ==
    /\ ret.op = "clean_data"
    /\ df' = aggregate_monthly(df)
    /\ ret' = [op |-> "aggregate_monthly", raw |-> ret.raw, cleaned |-> df,
               rows |-> df']
    /\ UNCHANGED <<district_rankings, pincode_rankings, rankings_cache>>

Preprocessed == ret.op \in {"clean_data", "aggregate_monthly"}

\* engine.rank_districts(df)
PipelineRankDistricts ==
    /\ Preprocessed
    /\ \E district_data \in rank_districts(RankingTable(df), "aer") :
           /\ district_rankings' = Some(district_data)
           /\ ret' = [op |-> "rank_districts", metric |-> "aer",
                      raw |-> ret.raw, rows |-> district_data]
           /\ UNCHANGED <<df, pincode_rankings, rankings_cache>>

\* engine.rank_pincodes(df, min_enrollments=10)
PipelineRankPincodes ==
    /\ Preprocessed
    /\ \E pincode_data \in rank_pincodes(RankingTable(df), "aer", 10) :
           /\ pincode_rankings' = Some(pincode_data)
           /\ ret' = [op |-> "rank_pincodes", metric |-> "aer",
                      min_enrollments |-> 10, top_n |-> NoTopN,
                      raw |-> ret.raw, rows |-> pincode_data]
           /\ UNCHANGED <<df, district_rankings, rankings_cache>>

\* engine.identify_priority_zones(df)
PipelineIdentifyPriorityZones ==
    /\ Preprocessed
    /\ \E priority_zones \in identify_priority_zones(RankingTable(df), Frac(1, 100), 50) :
           /\ ret' = [op |-> "identify_priority_zones",
                      aer_threshold |-> Frac(1, 100), min_enrollments |-> 50,
                      raw |-> ret.raw, rows |-> priority_zones]
           /\ UNCHANGED <<df, district_rankings, pincode_rankings, rankings_cache>>

SpecPipeline ==
    InitPipeline /\ [][CleanData \/ AggregateMonthly \/ PipelineRankDistricts
                           \/ PipelineRankPincodes
                           \/ PipelineIdentifyPriorityZones]_vars

\* clean_data on a table of one record, for every PIN text of up to
\* MaxPincodeLen characters of PincodeChars
PincodeChars == {"5", "0", ".", Newline}

MaxPincodeLen == 8

InitPincode ==
    /\ df \in {<<RawRecord(RawDates[1], <<"Hyderabad", text>>, RawCounts[1])>> :
                 text \in UNION {[1..n -> PincodeChars] : n \in 0..MaxPincodeLen}}
    /\ district_rankings = None
    /\ pincode_rankings = None
    /\ rankings_cache = None
    /\ ret = NoCall

SpecPincode == InitPincode /\ [][CleanData]_vars

\* the raw records with their dates parsed, names standardized and PIN
\* values cleaned: the keys under which clean_data looks for duplicates
KeyedRaw == clean_pincodes(standardize_districts(parse_dates(ret.raw)))

\* one raw count as the claims read it: a missing one is 0, a negative one 0
CountOf(count) == IF count = NaN \/ count.v < 0 THEN 0 ELSE count.v

RECURSIVE CountSum(_, _, _)
CountSum(t, idx, col) ==
    IF idx = {} THEN 0
    ELSE LET i == CHOOSE j \in idx : TRUE
         IN  CountOf(t[i][col]) + CountSum(t, idx \ {i}, col)

MonthOf(date) == IF date = NaT THEN NaT ELSE [year |-> date.year, month |-> date.month]

MonthKey(r) == <<MonthOf(r.date), r.district, r.pincode>>

\* C12: after clean_data no two records share (month, district, pincode);
\* each record holds the sums of the counts of the raw records with its key,
\* the state of the first of them, and the total of the summed counts.
C12_OneRecordPerMonthKey ==
    ret.op = "clean_data" =>
        /\ \A i, j \in DOMAIN ret.rows :
               i # j => MonthKey(ret.rows[i]) # MonthKey(ret.rows[j])
        /\ \A k \in DOMAIN ret.rows :
               LET r == ret.rows[k]
                   merged == {i \in DOMAIN KeyedRaw : MonthKey(KeyedRaw[i]) = MonthKey(r)}
                   first == CHOOSE i \in merged : \A j \in merged : i <= j
               IN  /\ merged # {}
                   /\ r.age_0_5 = CountSum(ret.raw, merged, "age_0_5")
                   /\ r.age_5_17 = CountSum(ret.raw, merged, "age_5_17")
                   /\ r.age_18_greater = CountSum(ret.raw, merged, "age_18_greater")
                   /\ r.state = ret.raw[first].state
                   /\ r.total_enrollments = r.age_0_5 + r.age_5_17 + r.age_18_greater

\* C13: every raw record whose date is no date is in the output of
\* clean_data with a missing date, and the counts of these records are in
\* the counts of the output records with a missing date.
C13_UnparsedDatesKept ==
    ret.op = "clean_data" =>
        LET unparsed == {i \in DOMAIN ret.raw : ret.raw[i].date = NotADate}
            missing == {k \in DOMAIN ret.rows : ret.rows[k].date = NaT}
        IN  /\ \A i \in unparsed :
                   \E k \in missing :
                       /\ ret.rows[k].district = KeyedRaw[i].district
                       /\ ret.rows[k].pincode = KeyedRaw[i].pincode
            /\ \A col \in EnrollmentCols :
                   SumOver(ret.rows, missing, col) >= CountSum(ret.raw, unparsed, col)

\* C14: every row of every table of the pipeline (clean_data,
\* aggregate_monthly, rank_districts, rank_pincodes, identify_priority_zones)
\* has total_enrollments = age_0_5 + age_5_17 + age_18_greater, whatever
\* total_enrollments the raw records carried.
C14_TotalIsSumOfCounts ==
    ret.op # "none" =>
        \A k \in DOMAIN ret.rows :
            ret.rows[k].total_enrollments
                = ret.rows[k].age_0_5 + ret.rows[k].age_5_17
                  + ret.rows[k].age_18_greater

\* two raw records that carry the total 7 are merged into a priority zone of
\* total 120
C14_RawTotalReplaced ==
    /\ ret.op = "identify_priority_zones"
    /\ Len(ret.raw) = 2
    /\ \A i \in DOMAIN ret.raw : ret.raw[i].total_enrollments = 7
    /\ Len(ret.rows) = 1
    /\ ret.rows[1].total_enrollments = 120

\* C18: after clean_data of one record, the record is there with its counts
\* and its pincode_valid is true exactly when the raw PIN text is six digits.
C18_ValidIffSixDigits ==
    (ret.op = "clean_data" /\ Len(ret.raw) = 1) =>
        /\ Len(ret.rows) = 1
        /\ \A col \in EnrollmentCols :
               ret.rows[1][col] = CountOf(ret.raw[1][col])
        /\ ret.rows[1].pincode_valid
               <=> /\ Len(ret.raw[1].pincode) = 6
                   /\ \A i \in 1..6 : ret.raw[1].pincode[i] \in Digits

\* C19: after clean_data every count is >= 0 and is the sum, over the raw
\* records with the record's (date, district, pincode), of the raw counts
\* with a missing count taken as 0 and a negative count as 0.
C19_CountsFilledAndClamped ==
    ret.op = "clean_data" =>
        \A k \in DOMAIN ret.rows :
            LET r == ret.rows[k]
                merged == {i \in DOMAIN KeyedRaw :
                              DuplicateKey(KeyedRaw[i]) = DuplicateKey(r)}
            IN  \A col \in EnrollmentCols :
                    /\ r[col] >= 0
                    /\ r[col] = CountSum(ret.raw, merged, col)

\* a record with a missing and a negative count is merged with (2, 3, 1)
C19_MergedAfterClamp ==
    /\ ret.op = "clean_data"
    /\ Len(ret.raw) = 2
    /\ ret.raw[1].age_18_greater = [v |-> 1]
    /\ ret.raw[2].age_0_5 = NaN
    /\ ret.raw[2].age_18_greater = [v |-> -4]
    /\ Len(ret.rows) = 1
    /\ ret.rows[1].age_0_5 = 2
    /\ ret.rows[1].age_5_17 = 63
    /\ ret.rows[1].age_18_greater = 1

---------------------------------------------------------------------------
(* add_metrics_to_dataframe applied to a count table, to its own output,   *)
(* and once more to the same count table                                   *)

\* metrics_calc.add_metrics_to_dataframe(df) on a table of counts
AddMetrics ==
    /\ FirstCall
    /\ df' = add_metrics_to_dataframe(df)
    /\ ret' = [op |-> "add_metrics_to_dataframe", applied_to |-> "counts",
               counts |-> df, first |-> df', rows |-> df']
    /\ UNCHANGED <<district_rankings, pincode_rankings, rankings_cache>>

\* metrics_calc.add_metrics_to_dataframe(df) on the annotated table
AddMetricsToAnnotated ==
    /\ ret.op = "add_metrics_to_dataframe"
    /\ ret.applied_to = "counts"
    /\ df' = add_metrics_to_dataframe(df)
    /\ ret' = [ret EXCEPT !.applied_to = "annotated", !.rows = df']
    /\ UNCHANGED <<district_rankings, pincode_rankings, rankings_cache>>

\* a second metrics_calc.add_metrics_to_dataframe on the same counts
AddMetricsToSameCounts ==
    /\ ret.op = "add_metrics_to_dataframe"
    /\ ret.applied_to = "counts"
    /\ df' = add_metrics_to_dataframe(ret.counts)
    /\ ret' = [ret EXCEPT !.applied_to = "same counts", !.rows = df']
    /\ UNCHANGED <<district_rankings, pincode_rankings, rankings_cache>>

SpecAnnotate ==
    Init /\ [][AddMetrics \/ AddMetricsToAnnotated \/ AddMetricsToSameCounts]_vars

\* C21: add_metrics_to_dataframe applied to its own output, or again to the
\* same count table, returns the table of the first application: the same
\* aer, caes, aebi, percentages, grades and priority_score in every row, and
\* the counts and keys untouched.
C21_MetricsIdempotent ==
    ret.op = "add_metrics_to_dataframe" =>
        /\ ret.rows = ret.first
        /\ Len(ret.rows) = Len(ret.counts)
        /\ \A i \in DOMAIN ret.rows :
             LET r == ret.rows[i]
                 c == ret.counts[i]
             IN  /\ \A col \in DOMAIN c : r[col] = c[col]
                 /\ IsAer(r.aer, c.age_18_greater, CountsTotal(c))
                 /\ r.aer_grade = AerGradeOf(c.age_18_greater, CountsTotal(c))

\* the annotated table of three records, two of them with equal aer, has been
\* annotated again
C21_AnnotatedTwice ==
    /\ ret.op = "add_metrics_to_dataframe"
    /\ ret.applied_to = "annotated"
    /\ Len(ret.rows) = 3
    /\ \E i, j \in DOMAIN ret.rows :
         /\ i # j
         /\ ret.rows[i].aer = ret.rows[j].aer
         /\ ret.rows[i].priority_score = Frac(3, 2)

---------------------------------------------------------------------------
(* Order of the ranked rows                                                *)

\* the key of a ranked row, as groupby orders it
GroupKey(r) ==
    IF "pincode" \in DOMAIN r THEN <<r.district, r.pincode>> ELSE <<r.district>>

\* C22: in the rows returned by rank_districts and rank_pincodes, two rows
\* with equal values of the ranking metric are in the order of the grouped
\* table, i.e. in ascending order of their group keys.
C22_TiesKeepGroupingOrder ==
    ret.op \in {"rank_districts", "rank_pincodes"} =>
        \A i, j \in DOMAIN ret.rows :
            (i < j /\ ret.rows[i][ret.metric] = ret.rows[j][ret.metric])
                => KeyLess(GroupKey(ret.rows[i]), GroupKey(ret.rows[j]))

---------------------------------------------------------------------------
(* Monthly aggregation                                                     *)

YearMonthKey(r) == <<r.year_month, r.district, r.pincode>>

SummedCols == EnrollmentCols \cup {"total_enrollments"}

\* C23: aggregate_monthly returns one row for each distinct
\* (year_month, district, pincode) of the cleaned table and no other row;
\* the three counts and total_enrollments of a row are the sums over the
\* cleaned records with its key, and each column has the same grand total
\* before and after.
C23_MonthlyOneRowPerKey ==
    ret.op = "aggregate_monthly" =>
        LET cleaned == ret.cleaned
            monthly == ret.rows
            keys == {YearMonthKey(cleaned[i]) : i \in DOMAIN cleaned}
        IN  /\ {YearMonthKey(monthly[k]) : k \in DOMAIN monthly} = keys
            /\ Len(monthly) = Cardinality(keys)
            /\ \A k \in DOMAIN monthly :
                   LET In(r) == YearMonthKey(r) = YearMonthKey(monthly[k])
                   IN  \A col \in SummedCols :
                           monthly[k][col] = ColumnSum(SelectSeq(cleaned, In), col)
            /\ \A col \in SummedCols :
                   ColumnSum(monthly, col) = ColumnSum(cleaned, col)

\* two cleaned records of two days of January 2025 with the same district
\* and PIN have become one monthly row
C23_TwoDaysOneMonth ==
    /\ ret.op = "aggregate_monthly"
    /\ Len(ret.cleaned) = 2
    /\ ret.cleaned[1].date # ret.cleaned[2].date
    /\ ret.cleaned[1].date # NaT
    /\ ret.cleaned[2].date # NaT
    /\ Len(ret.rows) = 1
    /\ ret.rows[1].age_18_greater
           = ret.cleaned[1].age_18_greater + ret.cleaned[2].age_18_greater
    /\ ret.rows[1].age_18_greater > ret.cleaned[1].age_18_greater

---------------------------------------------------------------------------
(* Within-district variation                                               *)

\* the aer of a (district, pincode) aggregate of the input
KeyAer(key) ==
    LET adults == ColumnSum(KeyRows(key), "age_18_greater")
        total == ColumnSum(KeyRows(key), "total_enrollments")
    IN  IF total = 0 THEN FInt(0) ELSE Frac(adults, total)

\* C24: analyze_within_district_variation(df, min_pincodes) returns one row
\* for each district with at least min_pincodes (district, pincode)
\* aggregates and no other row; best_pincode is a PIN of the district with
\* the greatest aer, worst_pincode one with the least, min_aer <= max_aer,
\* and no row comes before a row with a greater coefficient of variation.
C24_VariationPerDistrict ==
    ret.op = "analyze_within_district_variation" =>
        LET analyzed == {d \in DfDistricts : NumPincodes(d) >= ret.min_pincodes}
            PinsOf(d) == {key \in DfKeys : key[1] = d}
        IN  /\ ~ret.raised
            /\ {ret.rows[k].district : k \in DOMAIN ret.rows} = analyzed
            /\ Len(ret.rows) = Cardinality(analyzed)
            /\ \A k \in DOMAIN ret.rows :
                   LET r == ret.rows[k]
                   IN  /\ \E best \in PinsOf(r.district) :
                              /\ best[2] = r.best_pincode
                              /\ \A key \in PinsOf(r.district) :
                                     FLe(KeyAer(key), KeyAer(best))
                       /\ \E worst \in PinsOf(r.district) :
                              /\ worst[2] = r.worst_pincode
                              /\ \A key \in PinsOf(r.district) :
                                     FLe(KeyAer(worst), KeyAer(key))
                       /\ FLe(r.min_aer, r.max_aer)
            /\ \A i, j \in DOMAIN ret.rows :
                   i < j => ~CvBefore(ret.rows[j], ret.rows[i])

---------------------------------------------------------------------------
(* rank_pincodes with top_n                                                *)

\* top_n: None, and the integers 0, 1, 2
HeadSizes == {NoTopN, 0, 1, 2}

\* engine.rank_pincodes(df, top_n=top_n) on a fresh engine
RankPincodesTopN ==
    \E top_n \in HeadSizes :
      \E pincode_data \in rank_pincodes(df, "aer", 10) :
        /\ FirstCall
        /\ pincode_rankings' = Some(pincode_data)
        /\ ret' = [op |-> "rank_pincodes", metric |-> "aer",
                   min_enrollments |-> 10, top_n |-> top_n,
                   rows |-> head(pincode_data, top_n)]
        /\ UNCHANGED <<rankings_cache, df, district_rankings>>

SpecTopN == Init /\ [][RankPincodesTopN]_vars

\* C25: rank_pincodes with an integer top_n returns at most top_n rows, the
\* rows of ranks 1..min(top_n, N) of the full ranking of N rows in that
\* order; with top_n = None it returns the full ranking.
C25_TopNRowsOnly ==
    ret.op = "rank_pincodes" =>
        LET full == pincode_rankings.rows
        IN  IF ret.top_n = NoTopN THEN ret.rows = full
            ELSE /\ Len(ret.rows) <= ret.top_n
                 /\ Len(ret.rows) = IF ret.top_n < Len(full) THEN ret.top_n
                                    ELSE Len(full)
                 /\ \A i \in DOMAIN ret.rows :
                        ret.rows[i] = full[i] /\ ret.rows[i].rank = i

---------------------------------------------------------------------------
(* The two grades of one annotated row                                     *)

\* (age_0_5, age_5_17, age_18_greater): every small triple, and triples of
\* total 100 and 101 with aer and aebi on and next to the grade thresholds
GradeCounts ==
    {<<c0, c1, c2>> : c0, c1, c2 \in 0..MaxCount}
        \cup {<<89, 5, 6>>, <<90, 5, 5>>, <<95, 0, 5>>, <<91, 5, 4>>,
              <<92, 5, 3>>, <<93, 5, 2>>, <<94, 5, 1>>, <<100, 0, 1>>,
              <<95, 5, 1>>, <<99, 0, 1>>, <<5, 95, 0>>, <<94, 0, 6>>}

InitRow ==
    /\ df \in {<<[age_0_5           |-> c[1],
                  age_5_17          |-> c[2],
                  age_18_greater    |-> c[3],
                  total_enrollments |-> c[1] + c[2] + c[3]]>> : c \in GradeCounts}
    /\ district_rankings = None
    /\ pincode_rankings = None
    /\ rankings_cache = None
    /\ ret = NoCall

SpecRow == InitRow /\ [][AddMetrics]_vars

\* C26: in every row annotated by add_metrics_to_dataframe, aebi >= 7 (AEBI
\* grade GREEN) implies aer >= 0.05 (AER grade GREEN), and AER grade RED
\* implies AEBI grade RED.
C26_GradesAgree ==
    ret.op = "add_metrics_to_dataframe" =>
        \A i \in DOMAIN ret.rows :
            LET r == ret.rows[i]
            IN  /\ r.aebi_grade = "GREEN" => r.aer_grade = "GREEN"
                /\ FLe(FInt(7), r.aebi) => FLe(Frac(5, 100), r.aer)
                /\ r.aer_grade = "RED" => r.aebi_grade = "RED"

\* counts (89, 5, 6): aebi is exactly 7 and both grades are GREEN
C26_AebiSeven ==
    /\ ret.op = "add_metrics_to_dataframe"
    /\ Len(ret.rows) = 1
    /\ ret.rows[1].aebi = FInt(7)
    /\ ret.rows[1].aer = Frac(6, 100)
    /\ ret.rows[1].aebi_grade = "GREEN"
    /\ ret.rows[1].aer_grade = "GREEN"

---------------------------------------------------------------------------
(* rank_pincodes and identify_priority_zones with their default parameters *)
(* on one table                                                            *)

\* engine.rank_pincodes(df)
DefaultRankPincodes ==
    /\ FirstCall
    /\ RankPincodes
    /\ ret'.metric = "aer"
    /\ ret'.min_enrollments = 10
    /\ ret'.top_n = NoTopN

\* engine.identify_priority_zones(df)
DefaultIdentifyPriorityZones ==
    /\ ret.op = "rank_pincodes"
    /\ IdentifyPriorityZones
    /\ ret'.aer_threshold = Frac(1, 100)
    /\ ret'.min_enrollments = 50

SpecDefaults ==
    Init /\ [][DefaultRankPincodes \/ DefaultIdentifyPriorityZones]_vars

\* C27: every priority zone (ceiling 0.01, floor 50) is a row of the PIN
\* ranking (floor 10) of the same table, with the same counts and aer; in
\* that row risk_level is HIGH or MEDIUM, aer_grade is RED, the
\* recommendation is 'Targeted adult drive needed' or 'Adult outreach
\* required', and the zone is TIER 1 or TIER 2 exactly when the risk_level
\* is HIGH.
C27_ZonesAreRankedPins ==
    ret.op = "identify_priority_zones" =>
        \A z \in DOMAIN ret.rows :
            LET zone == ret.rows[z]
                ranked == {k \in DOMAIN pincode_rankings.rows :
                              /\ pincode_rankings.rows[k].district = zone.district
                              /\ pincode_rankings.rows[k].pincode = zone.pincode}
            IN  /\ Cardinality(ranked) = 1
                /\ \A k \in ranked :
                       LET row == pincode_rankings.rows[k]
                       IN  /\ \A col \in {"age_0_5", "age_5_17", "age_18_greater",
                                          "total_enrollments", "aer"} :
                                  row[col] = zone[col]
                           /\ row.risk_level \in {"HIGH", "MEDIUM"}
                           /\ row.aer_grade = "RED"
                           /\ row.recommendation \in {"Targeted adult drive needed",
                                                      "Adult outreach required"}
                           /\ (zone.tier \in {"TIER 1 - URGENT", "TIER 2 - MODERATE"})
                                  <=> row.risk_level = "HIGH"

\* of three ranked PINs two are priority zones, one TIER 1 and one TIER 3
C27_TwoZonesOfThreePins ==
    /\ ret.op = "identify_priority_zones"
    /\ Len(pincode_rankings.rows) = 3
    /\ Len(ret.rows) = 2
    /\ ret.rows[1].tier = "TIER 1 - URGENT"
    /\ ret.rows[2].tier = "TIER 3 - LOW PRIORITY"

---------------------------------------------------------------------------
(* clean_data applied to its own output                                    *)

\* the columns of a cleaned table as clean_data reads them: astype(str) of a
\* cleaned PIN is its text (the digits of an integer), a count is a number
\* that is not missing
CleanedAsInput(t) ==
    Table([i \in DOMAIN t |->
        [t[i] EXCEPT !.pincode = @.text,
                     !.age_0_5 = [v |-> @],
                     !.age_5_17 = [v |-> @],
                     !.age_18_greater = [v |-> @]]])

\* preprocessor.clean_data(df_clean)
CleanDataAgain ==
    /\ ret.op = "clean_data"
    /\ df' = clean_data(CleanedAsInput(df))
    /\ ret' = [op |-> "clean_data of cleaned", raw |-> ret.raw,
               first |-> ret.rows, rows |-> df']
    /\ UNCHANGED <<district_rankings, pincode_rankings, rankings_cache>>

SpecCleanTwice == InitPincode /\ [][CleanData \/ CleanDataAgain]_vars

\* C28: clean_data applied to its own output returns the same records: the
\* same number of them, each with the date, district, PIN value,
\* pincode_valid flag, counts and total_enrollments it had.
C28_CleanDataIdempotent ==
    ret.op = "clean_data of cleaned" =>
        /\ Len(ret.rows) = Len(ret.first)
        /\ \A k \in DOMAIN ret.rows :
               \A col \in {"date", "district", "pincode", "pincode_valid",
                           "age_0_5", "age_5_17", "age_18_greater",
                           "total_enrollments"} :
                   ret.rows[k][col] = ret.first[k][col]

---------------------------------------------------------------------------
(* create_performance_scorecard                                            *)

\* Series.rank(ascending=True).astype(int): the average rank cut to its
\* integer part
priority_rank(t, i) == AverageRank(t, i).num \div AverageRank(t, i).den

\* the status texts, without the signs they start with
status(aer_grade) ==
    IF aer_grade = "GREEN" THEN "Acceptable"
    ELSE IF aer_grade = "YELLOW" THEN "Needs Improvement"
    ELSE "Critical"

\* scorecard.sort_values('priority_rank'): equal ranks in any order
RECURSIVE PriorityRankOrders(_, _)
PriorityRankOrders(t, idx) ==
    IF idx = {} THEN {<<>>}
    ELSE LET least == {i \in idx :
                         \A j \in idx : t[i].priority_rank <= t[j].priority_rank}
         IN  UNION {{<<t[i]>> \o rest : rest \in PriorityRankOrders(t, idx \ {i})}
                    : i \in least}

\* create_performance_scorecard(df): the tables it may return
create_performance_scorecard(t) ==
    LET metrics == add_metrics_to_dataframe(GroupByDistrict(t))
        scorecard ==
            Table([i \in DOMAIN metrics |->
                metrics[i] @@ [priority_rank |-> priority_rank(metrics, i),
                               status        |-> status(metrics[i].aer_grade)]])
    IN  PriorityRankOrders(scorecard, DOMAIN scorecard)

\* engine.rank_districts(df) on a fresh engine
ScorecardRankDistricts ==
    /\ FirstCall
    /\ RankDistricts
    /\ ret'.metric = "aer"

\* engine.create_performance_scorecard(df) on the same table
CreatePerformanceScorecard ==
    /\ ret.op = "rank_districts"
    /\ \E scorecard \in create_performance_scorecard(df) :
           ret' = [op |-> "create_performance_scorecard", rows |-> scorecard]
    /\ UNCHANGED <<df, district_rankings, pincode_rankings, rankings_cache>>

SpecScorecard ==
    Init /\ [][ScorecardRankDistricts \/ CreatePerformanceScorecard]_vars

\* C29: the priority_rank values of the scorecard are the integers 1..N, each
\* used once, and every district has the priority_rank that rank_districts
\* (metric aer) gave it as rank on the same table.
C29_ScorecardRankIsRank ==
    ret.op = "create_performance_scorecard" =>
        /\ Len(ret.rows) = Len(district_rankings.rows)
        /\ {ret.rows[k].priority_rank : k \in DOMAIN ret.rows} = 1..Len(ret.rows)
        /\ \A k \in DOMAIN ret.rows :
               \E j \in DOMAIN district_rankings.rows :
                   /\ district_rankings.rows[j].district = ret.rows[k].district
                   /\ district_rankings.rows[j].rank = ret.rows[k].priority_rank

---------------------------------------------------------------------------
(* One engine, any sequence of calls                                       *)

\* the lines print_rankings_summary prints: the message when there are no
\* district rankings, else the rank, district and priority of every row
print_rankings_summary(rankings) ==
    IF rankings = None
    THEN <<"No district rankings available. Run rank_districts() first.">>
    ELSE [i \in DOMAIN rankings.rows |->
             [rank     |-> rankings.rows[i].rank,
              district |-> rankings.rows[i].district,
              priority |-> rankings.rows[i].priority]] \o <<>>

\* engine.print_rankings_summary()
PrintRankingsSummary ==
    /\ ret' = [op |-> "print_rankings_summary", raised |-> FALSE,
               printed |-> print_rankings_summary(district_rankings)]
    /\ UNCHANGED <<df, district_rankings, pincode_rankings, rankings_cache>>

\* the rows of the tables the engine is called with: a PIN of total 60 with
\* no adults, a PIN of total 5, a second PIN like the first, and a PIN of
\* another district
EngineOptions == {1, 2, 7, 18}

MaxEngineRows == 2

InitEngine ==
    /\ df \in UNION {{Table([i \in 1..n |-> RowOption(f[i])])
                        : f \in {g \in NonDecreasing(n, 1) :
                                    \A i \in 1..n : g[i] \in EngineOptions}}
                     : n \in 0..MaxEngineRows}
    /\ district_rankings = None
    /\ pincode_rankings = None
    /\ rankings_cache = None
    /\ ret = NoCall

SpecEngine == InitEngine /\ [][Next \/ PrintRankingsSummary]_vars

\* the (district, pincode) aggregates of the input with a total of at least
\* min_enrollments
QualifyingKeys(min_enrollments) ==
    {key \in DfKeys :
        ColumnSum(KeyRows(key), "total_enrollments") >= min_enrollments}

\* C30: on one engine, district_rankings and pincode_rankings start as None;
\* a rank_districts call returns a ranking of the districts of its table
\* that depends on its arguments only and leaves it in district_rankings; a
\* rank_pincodes call leaves the full ranking in pincode_rankings and
\* returns its first top_n rows; identify_priority_zones and
\* print_rankings_summary change neither slot; print_rankings_summary does
\* not raise, also before any rank_districts.
C30_SlotsFollowCalls ==
    /\ district_rankings = None
    /\ pincode_rankings = None
    /\ [][/\ ret'.op = "rank_districts" =>
                /\ district_rankings' = Some(ret'.rows)
                /\ pincode_rankings' = pincode_rankings
                /\ ret'.rows \in rank_districts(df', ret'.metric)
          /\ ret'.op = "rank_pincodes" =>
                /\ district_rankings' = district_rankings
                /\ ~pincode_rankings'.isNone
                /\ Len(pincode_rankings'.rows)
                       = Cardinality(QualifyingKeys(ret'.min_enrollments))
                /\ pincode_rankings'.rows
                       \in rank_pincodes(df', ret'.metric, ret'.min_enrollments)
                /\ ret'.rows = IF ret'.top_n = NoTopN THEN pincode_rankings'.rows
                               ELSE SubSeq(pincode_rankings'.rows, 1,
                                           Len(ret'.rows))
                /\ ret'.top_n # NoTopN =>
                       Len(ret'.rows) = IF Len(pincode_rankings'.rows) < ret'.top_n
                                        THEN Len(pincode_rankings'.rows)
                                        ELSE ret'.top_n
          /\ ret'.op \in {"identify_priority_zones", "print_rankings_summary"} =>
                /\ district_rankings' = district_rankings
                /\ pincode_rankings' = pincode_rankings
          /\ ret'.op = "identify_priority_zones" =>
                ret'.rows \in identify_priority_zones(df', ret'.aer_threshold,
                                                      ret'.min_enrollments)
          /\ ret'.op = "print_rankings_summary" =>
                /\ ~ret'.raised
                /\ district_rankings = None => Len(ret'.printed) = 1
         ]_vars

\* after rank_pincodes with top_n = 1 left two rows in pincode_rankings and
\* rank_districts ranked two districts, print_rankings_summary has printed
\* both districts
C30_SummaryAfterBothRankings ==
    /\ ret.op = "print_rankings_summary"
    /\ ~district_rankings.isNone
    /\ Len(ret.printed) = 2
    /\ ret.printed[1].rank = 1
    /\ ~pincode_rankings.isNone
    /\ Len(pincode_rankings.rows) = 2

===========================================================================
